---- MODULE Spec2Model ----
(***************************************************************************)
(* Model of the package manager's resolution and archival core:            *)
(*   - internal/controller/helper.go : Version, constraints, selection     *)
(*   - internal/utils/files.go       : archive names, entry extraction     *)
(*   - utils archive / pattern files : CreateTarGz, ExtractTarGz, collect  *)
(*                                                                         *)
(* A Go string is modelled as a sequence of one-character strings, so that *)
(* prefix tests, splitting, trimming and path cleaning are computed on the *)
(* characters as the code computes them.  Paths follow the Unix rules of   *)
(* path/filepath (os.PathSeparator = "/").                                 *)
(***************************************************************************)
EXTENDS Integers, Sequences, FiniteSets, TLC

VARIABLES
    call,      \* the operation about to be made (or made), with its arguments
    ret,       \* what that operation returned (a record), once it has
    cwd,       \* the process working directory, an absolute path
    disk,      \* the file system: a set of [path, kind, data], paths absolute
    collected, \* CreateTarGz: the files collectFilesByPatterns returned
    pending,   \* the entries of the archive written by CreateTarGz that
               \* ExtractTarGz has not read yet, in archive order
    outputDir, \* ExtractTarGz: the outputDir argument
    headersRead, \* ExtractTarGz: the headers read so far, in archive order
    xstate,    \* "idle", "collected", "built", "extracting", "ok" or "failed"
    xerr,      \* the error the archive operation returned ("" for none)
    pc,        \* Create and Update: the statement the controller is at
    remote,    \* the files in the remote directory: a set of [name, entries]
    log        \* Create and Update: what was done so far, in order

vars ==
    <<call, ret, cwd, disk, collected, pending, outputDir, headersRead, xstate, xerr,
      pc, remote, log>>

(***************************************************************************)
(* Bounds of the model.                                                    *)
(***************************************************************************)
MaxVerLen == 5      \* longest version string drawn character by character
MaxNum == 1         \* largest version component drawn for comparisons
MaxListing == 3     \* longest remote listing
MaxEntries == 2     \* most entries of an archive given to ExtractTarGz

(***************************************************************************)
(* Strings.                                                                *)
(***************************************************************************)
Digits == <<"0", "1", "2", "3", "4", "5", "6", "7", "8", "9">>

IsDigit(c) == \E i \in 1..Len(Digits) : Digits[i] = c

DigitVal(c) == (CHOOSE i \in 1..Len(Digits) : Digits[i] = c) - 1

\* strings.HasPrefix
HasPrefix(s, prefix) ==
    Len(prefix) <= Len(s) /\ SubSeq(s, 1, Len(prefix)) = prefix

\* strings.HasSuffix
HasSuffix(s, suffix) ==
    Len(suffix) <= Len(s) /\ SubSeq(s, Len(s) - Len(suffix) + 1, Len(s)) = suffix

\* strings.Index, 1-based; 0 when sep does not occur in s
Index(s, sep) ==
    LET hits == {i \in 1..(Len(s) - Len(sep) + 1) : SubSeq(s, i, i + Len(sep) - 1) = sep}
    IN IF hits = {} THEN 0 ELSE CHOOSE i \in hits : \A j \in hits : i <= j

\* strings.Split for a non-empty separator: always at least one part
RECURSIVE Split(_, _)
Split(s, sep) ==
    LET i == Index(s, sep)
    IN IF i = 0 THEN <<s>>
       ELSE <<SubSeq(s, 1, i - 1)>> \o Split(SubSeq(s, i + Len(sep), Len(s)), sep)

\* the white space strings.TrimSpace removes (ASCII part)
WhiteSpace == {" ", "\t", "\n", "\r"}

RECURSIVE TrimLeft(_)
TrimLeft(s) ==
    IF Len(s) > 0 /\ s[1] \in WhiteSpace THEN TrimLeft(Tail(s)) ELSE s

RECURSIVE TrimRight(_)
TrimRight(s) ==
    IF Len(s) > 0 /\ s[Len(s)] \in WhiteSpace
    THEN TrimRight(SubSeq(s, 1, Len(s) - 1)) ELSE s

\* strings.TrimSpace
TrimSpace(s) == TrimRight(TrimLeft(s))

\* all strings over an alphabet of at most n characters
StringsUpTo(alphabet, n) == UNION {[1..k -> alphabet] : k \in 0..n}

(***************************************************************************)
(* strconv.Atoi: an optional sign, then one or more decimal digits; the    *)
(* value must fit a 64-bit int.  The range test is made on the digits, so  *)
(* that it needs no 64-bit arithmetic.                                     *)
(***************************************************************************)
MaxInt64 == <<"9","2","2","3","3","7","2","0","3","6","8","5","4","7","7","5","8","0","7">>
MinInt64Abs == <<"9","2","2","3","3","7","2","0","3","6","8","5","4","7","7","5","8","0","8">>

RECURSIVE StripZeros(_)
StripZeros(d) ==
    IF Len(d) > 1 /\ d[1] = "0" THEN StripZeros(Tail(d)) ELSE d

\* d > m for digit strings of the same length
DigitsGreater(d, m) ==
    \E i \in 1..Len(d) :
        /\ DigitVal(d[i]) > DigitVal(m[i])
        /\ \A j \in 1..(i - 1) : d[j] = m[j]

OutOfRange(digits, neg) ==
    LET d == StripZeros(digits)
        m == IF neg THEN MinInt64Abs ELSE MaxInt64
    IN Len(d) > Len(m) \/ (Len(d) = Len(m) /\ DigitsGreater(d, m))

RECURSIVE DecimalValue(_)
DecimalValue(d) ==
    IF Len(d) = 0 THEN 0
    ELSE 10 * DecimalValue(SubSeq(d, 1, Len(d) - 1)) + DigitVal(d[Len(d)])

Atoi(s) ==
    LET signed == Len(s) > 0 /\ s[1] \in {"+", "-"}
        neg == Len(s) > 0 /\ s[1] = "-"
        body == IF signed THEN Tail(s) ELSE s
    IN IF Len(body) = 0 \/ \E i \in 1..Len(body) : ~IsDigit(body[i])
       THEN [err |-> "syntax", n |-> 0]
       ELSE IF OutOfRange(body, neg)
       THEN [err |-> "range", n |-> 0]
       ELSE [err |-> "", n |-> IF neg THEN 0 - DecimalValue(body) ELSE DecimalValue(body)]

\* strconv.Itoa for n >= 0
RECURSIVE Itoa(_)
Itoa(n) ==
    IF n < 10 THEN <<Digits[n + 1]>> ELSE Itoa(n \div 10) \o <<Digits[(n % 10) + 1]>>

(***************************************************************************)
(* Version (helper.go).                                                    *)
(***************************************************************************)
NoVersion == [Major |-> 0, Minor |-> 0, Patch |-> 0, Raw |-> <<>>]

InvalidFormat(v) == [err |-> "InvalidFormat", v |-> NoVersion]

\* mutant: the three "negative" checks are missing
parseVersion_noNegativeCheck(versionStr) ==
    LET parts == Split(versionStr, <<".">>)
    IN IF Len(parts) < 2 \/ Len(parts) > 3 THEN InvalidFormat(versionStr)
       ELSE LET major == Atoi(parts[1])
                minor == Atoi(parts[2])
                patch == IF Len(parts) = 3 THEN Atoi(parts[3]) ELSE [err |-> "", n |-> 0]
            IN IF major.err # "" \/ minor.err # "" \/ patch.err # ""
               THEN InvalidFormat(versionStr)
               ELSE [err |-> "",
                     v |-> [Major |-> major.n, Minor |-> minor.n,
                            Patch |-> patch.n, Raw |-> versionStr]]

parseVersion(versionStr) ==
    LET parts == Split(versionStr, <<".">>)
    IN IF Len(parts) < 2 \/ Len(parts) > 3 THEN InvalidFormat(versionStr)
       ELSE LET major == Atoi(parts[1])
                minor == Atoi(parts[2])
                patch == IF Len(parts) = 3 THEN Atoi(parts[3]) ELSE [err |-> "", n |-> 0]
            IN IF major.err # "" \/ major.n < 0 THEN InvalidFormat(versionStr)
               ELSE IF minor.err # "" \/ minor.n < 0 THEN InvalidFormat(versionStr)
               ELSE IF patch.err # "" \/ patch.n < 0 THEN InvalidFormat(versionStr)
               ELSE [err |-> "",
                     v |-> [Major |-> major.n, Minor |-> minor.n,
                            Patch |-> patch.n, Raw |-> versionStr]]

\* mutant: the patch component is never compared
Compare_ignoresPatch(v, other) ==
    IF v.Major # other.Major THEN (IF v.Major > other.Major THEN 1 ELSE -1)
    ELSE IF v.Minor # other.Minor THEN (IF v.Minor > other.Minor THEN 1 ELSE -1)
    ELSE 0

Compare(v, other) ==
    IF v.Major # other.Major THEN (IF v.Major > other.Major THEN 1 ELSE -1)
    ELSE IF v.Minor # other.Minor THEN (IF v.Minor > other.Minor THEN 1 ELSE -1)
    ELSE IF v.Patch # other.Patch THEN (IF v.Patch > other.Patch THEN 1 ELSE -1)
    ELSE 0

\* mutant: the display form is recomputed from the numbers
String_recomputed(v) ==
    Itoa(v.Major) \o <<".">> \o Itoa(v.Minor) \o <<".">> \o Itoa(v.Patch)

\* Version.String
String(v) == v.Raw

\* mutant: the one-character operators are tried before the two-character ones
constraintOperator_shortFirst(constraint) ==
    IF HasPrefix(constraint, <<">">>) THEN <<">">>
    ELSE IF HasPrefix(constraint, <<"<">>) THEN <<"<">>
    ELSE IF HasPrefix(constraint, <<"=">>) THEN <<"=">>
    ELSE IF HasPrefix(constraint, <<">", "=">>) THEN <<">", "=">>
    ELSE IF HasPrefix(constraint, <<"<", "=">>) THEN <<"<", "=">>
    ELSE <<>>

\* the operator prefix the constraint starts with, tried in the code's order
constraintOperator(constraint) ==
    IF HasPrefix(constraint, <<">", "=">>) THEN <<">", "=">>
    ELSE IF HasPrefix(constraint, <<"<", "=">>) THEN <<"<", "=">>
    ELSE IF HasPrefix(constraint, <<">">>) THEN <<">">>
    ELSE IF HasPrefix(constraint, <<"<">>) THEN <<"<">>
    ELSE IF HasPrefix(constraint, <<"=">>) THEN <<"=">>
    ELSE <<>>

\* mutant: a target that does not parse is taken as satisfied
satisfiesConstraint_failOpen(v, constraint) ==
    IF constraint = <<>> THEN TRUE
    ELSE LET trimmed == TrimSpace(constraint)
             prefix == constraintOperator(trimmed)
             operator == IF prefix = <<>> THEN <<"=">> ELSE prefix
             targetVersionStr == SubSeq(trimmed, Len(prefix) + 1, Len(trimmed))
             targetVersion == parseVersion(TrimSpace(targetVersionStr))
             comparison == Compare(v, targetVersion.v)
         IN IF targetVersion.err # "" THEN TRUE
            ELSE IF operator = <<">", "=">> THEN comparison >= 0
            ELSE IF operator = <<"<", "=">> THEN comparison <= 0
            ELSE IF operator = <<">">> THEN comparison > 0
            ELSE IF operator = <<"<">> THEN comparison < 0
            ELSE comparison = 0

\* Version.satisfiesConstraint
satisfiesConstraint(v, constraint) ==
    IF constraint = <<>> THEN TRUE
    ELSE LET trimmed == TrimSpace(constraint)
             prefix == constraintOperator(trimmed)
             operator == IF prefix = <<>> THEN <<"=">> ELSE prefix
             targetVersionStr == SubSeq(trimmed, Len(prefix) + 1, Len(trimmed))
             targetVersion == parseVersion(TrimSpace(targetVersionStr))
             comparison == Compare(v, targetVersion.v)
         IN IF targetVersion.err # "" THEN FALSE
            ELSE IF operator = <<">", "=">> THEN comparison >= 0
            ELSE IF operator = <<"<", "=">> THEN comparison <= 0
            ELSE IF operator = <<">">> THEN comparison > 0
            ELSE IF operator = <<"<">> THEN comparison < 0
            ELSE IF operator = <<"=">> THEN comparison = 0
            ELSE FALSE

(***************************************************************************)
(* Inputs of the Version operations.                                       *)
(***************************************************************************)
Concat(a, b) == a \o b

\* parts joined with "."
RECURSIVE JoinDots(_)
JoinDots(parts) ==
    IF Len(parts) = 0 THEN <<>>
    ELSE IF Len(parts) = 1 THEN parts[1]
    ELSE parts[1] \o <<".">> \o JoinDots(Tail(parts))

VerAlphabet == {"0", "1", ".", "-", "+", "x"}

\* version strings whose numbers do not fit in 32 bits: one component too
\* large for an int64, and one in range behind twenty zeros
LongVersionStrings ==
    { MinInt64Abs \o <<".", "0">>,
      <<"1", ".">> \o <<"-">> \o MinInt64Abs \o <<"9">>,
      <<"0","0","0","0","0","0","0","0","0","0",
        "0","0","0","0","0","0","0","0","0","0","1", ".", "2">> }

VersionStrings == StringsUpTo(VerAlphabet, MaxVerLen) \cup LongVersionStrings

\* a version written from its numbers: 2 or 3 components of 0..MaxNum, with
\* a leading zero on no component, on the first one or on all of them
VersionForms ==
    {f \in UNION {[1..k -> [n : 0..MaxNum, pad : BOOLEAN]] : k \in {2, 3}} :
        \A i \in 2..Len(f) : f[i].pad = f[2].pad /\ (f[i].pad => f[1].pad)}

FormPart(p) == (IF p.pad THEN <<"0">> ELSE <<>>) \o Itoa(p.n)

FormString(f) == JoinDots([i \in 1..Len(f) |-> FormPart(f[i])])

FormTriple(f) == <<f[1].n, f[2].n, IF Len(f) = 3 THEN f[3].n ELSE 0>>

PlainForms == {f \in VersionForms : \A i \in 1..Len(f) : ~f[i].pad}

(***************************************************************************)
(* State.  Every operation of the core is a synchronous call that shares   *)
(* no state with the next one.  A specification starts with the call that  *)
(* is about to be made (operation and arguments) and its action is the     *)
(* whole call.                                                             *)
(***************************************************************************)
NotReturned == [op |-> "running"]

\* no archive operation is in progress
remoteVars == <<pc, remote, log>>

\* no controller runs and no remote directory is used
RemoteIdle ==
    /\ pc = "none"
    /\ remote = {}
    /\ log = <<>>

ArchiveIdle ==
    /\ cwd = <<>>
    /\ disk = {}
    /\ collected = <<>>
    /\ pending = <<>>
    /\ outputDir = <<>>
    /\ headersRead = <<>>
    /\ xstate = "idle"
    /\ xerr = ""
    /\ RemoteIdle

archiveVars == <<cwd, disk, collected, pending, outputDir, headersRead, xstate, xerr>>

Returned == ret # NotReturned

(***************************************************************************)
(* parseVersion and Version.String.                                        *)
(***************************************************************************)
InitParse ==
    /\ call \in {[op |-> o, versionStr |-> s] :
                    o \in {"parseVersion", "String"}, s \in VersionStrings}
    /\ ret = NotReturned
    /\ ArchiveIdle

CallParseVersion ==
    /\ call.op = "parseVersion"
    /\ ret = NotReturned
    /\ ret' = parseVersion(call.versionStr)
    /\ UNCHANGED <<remoteVars, call, archiveVars>>

\* Version.String of the version parseVersion returned
CallString ==
    /\ call.op = "String"
    /\ ret = NotReturned
    /\ parseVersion(call.versionStr).err = ""
    /\ ret' = [str |-> String(parseVersion(call.versionStr).v)]
    /\ UNCHANGED <<remoteVars, call, archiveVars>>

NextParse == CallParseVersion \/ CallString

SpecParse == InitParse /\ [][NextParse]_vars

(***************************************************************************)
(* Version.Compare of two parsed versions.                                 *)
(***************************************************************************)
InitCompare ==
    /\ call \in {[op |-> "Compare", fa |-> fa, fb |-> fb,
                  a |-> FormString(fa), b |-> FormString(fb)] :
                    fa \in VersionForms, fb \in VersionForms}
    /\ ret = NotReturned
    /\ ArchiveIdle

CallCompare ==
    /\ call.op = "Compare"
    /\ ret = NotReturned
    /\ ret' = [n |-> Compare(parseVersion(call.a).v, parseVersion(call.b).v)]
    /\ UNCHANGED <<remoteVars, call, archiveVars>>

NextCompare == CallCompare

SpecCompare == InitCompare /\ [][NextCompare]_vars

(***************************************************************************)
(* Version.satisfiesConstraint.  A constraint is drawn as its pieces:      *)
(* white space, an operator or none, white space, a target, white space.   *)
(* Doubled operators (">>1.0") arise from targets that start with one.     *)
(***************************************************************************)
Spaces == {<<>>, <<" ">>, <<"\t", " ">>}

Operators == {<<>>, <<">", "=">>, <<"<", "=">>, <<">">>, <<"<">>, <<"=">>}

ValidTargets ==
    {FormString(f) : f \in PlainForms}
        \cup {<<"0", "1", ".", "0">>, <<"+", "1", ".", "0">>, <<"-", "0", ".", "1">>}

InvalidTargets ==
    { <<>>,
      <<"x", ".", "y">>,
      <<"1">>,
      <<"1", ".", "0", ".", "0", ".", "0">>,
      <<"1", ".", "x">>,
      <<"-", "1", ".", "0">>,
      <<"1", " ", ".", "0">>,
      <<">", "1", ".", "0">>,
      <<"=", "1", ".", "0">> }

ConstraintPieces ==
    [pre : Spaces, operator : Operators, mid : Spaces,
     target : ValidTargets \cup InvalidTargets, post : Spaces]

PiecesString(p) == p.pre \o p.operator \o p.mid \o p.target \o p.post

InitConstraint ==
    /\ call \in {[op |-> "satisfiesConstraint", form |-> f, v |-> FormString(f),
                  pieces |-> p, constraint |-> PiecesString(p)] :
                    f \in PlainForms, p \in ConstraintPieces}
    /\ ret = NotReturned
    /\ ArchiveIdle

CallSatisfiesConstraint ==
    /\ call.op = "satisfiesConstraint"
    /\ ret = NotReturned
    /\ ret' = [ok |-> satisfiesConstraint(parseVersion(call.v).v, call.constraint)]
    /\ UNCHANGED <<remoteVars, call, archiveVars>>

NextConstraint == CallSatisfiesConstraint

SpecConstraint == InitConstraint /\ [][NextConstraint]_vars

(***************************************************************************)
(* Package selection (helper.go, findBestPackageVersion).                  *)
(***************************************************************************)
TarGz == <<".", "t", "a", "r", ".", "g", "z">>

extractVersionFromFilename(filename, packageName) ==
    LET prefix == packageName \o <<"-">>
        suffix == TarGz
    IN IF ~HasPrefix(filename, prefix) \/ ~HasSuffix(filename, suffix)
       THEN [err |-> "format", versionStr |-> <<>>]
       ELSE [err |-> "",
             versionStr |-> SubSeq(filename, Len(prefix) + 1, Len(filename) - Len(suffix))]

\* mutant: the first file whose version does not parse ends the loop
RECURSIVE parseCandidates_stopAtUnparseable(_, _)
parseCandidates_stopAtUnparseable(files, packageName) ==
    IF Len(files) = 0 THEN <<>>
    ELSE LET file == Head(files)
             shaped == HasPrefix(file, packageName \o <<"-">>) /\ HasSuffix(file, TarGz)
             version == parseVersion(extractVersionFromFilename(file, packageName).versionStr)
         IN IF shaped /\ version.err # "" THEN <<>>
            ELSE IF shaped
            THEN <<[Filename |-> file, Version |-> version.v]>>
                    \o parseCandidates_stopAtUnparseable(Tail(files), packageName)
            ELSE parseCandidates_stopAtUnparseable(Tail(files), packageName)

\* mutant: a file whose version does not parse is a candidate all the same,
\* with the zero Version
RECURSIVE parseCandidates_keepUnparsed(_, _)
parseCandidates_keepUnparsed(files, packageName) ==
    IF Len(files) = 0 THEN <<>>
    ELSE LET file == Head(files)
             shaped == HasPrefix(file, packageName \o <<"-">>) /\ HasSuffix(file, TarGz)
             version == parseVersion(extractVersionFromFilename(file, packageName).versionStr)
             rest == parseCandidates_keepUnparsed(Tail(files), packageName)
         IN IF shaped
            THEN <<[Filename |-> file,
                    Version |-> IF version.err = "" THEN version.v ELSE NoVersion]>> \o rest
            ELSE rest

\* the first loop: the files of the right shape whose version parses, in
\* listing order, each with its parsed version
RECURSIVE parseCandidates(_, _)
parseCandidates(files, packageName) ==
    IF Len(files) = 0 THEN <<>>
    ELSE LET file == Head(files)
             shaped == HasPrefix(file, packageName \o <<"-">>) /\ HasSuffix(file, TarGz)
             extracted == extractVersionFromFilename(file, packageName)
             version == parseVersion(extracted.versionStr)
             rest == parseCandidates(Tail(files), packageName)
         IN IF shaped /\ extracted.err = "" /\ version.err = ""
            THEN <<[Filename |-> file, Version |-> version.v]>> \o rest
            ELSE rest

\* mutant: the constraint filter keeps every candidate
filterCandidates_keepAll(candidates, constraint) == candidates

\* the second loop: the candidates that satisfy the constraint, in order
RECURSIVE filterCandidates(_, _)
filterCandidates(candidates, constraint) ==
    IF Len(candidates) = 0 THEN <<>>
    ELSE LET rest == filterCandidates(Tail(candidates), constraint)
         IN IF satisfiesConstraint(Head(candidates).Version, constraint)
            THEN <<Head(candidates)>> \o rest
            ELSE rest

\* the comparison given to sort.Slice: highest version first
candidateLess(x, y) == Compare(x.Version, y.Version) > 0

Swap(s, i, j) == [s EXCEPT ![i] = s[j], ![j] = s[i]]

\* sort.Slice of Go 1.23 is pdqsort_func: a slice of at most maxInsertion
\* elements is sorted by insertion, a longer one is partitioned first.  The
\* operators below index a slice from 0, as the Go code does.
maxInsertion == 12

At(s, i) == s[i + 1]

SwapAt(s, i, j) == Swap(s, i + 1, j + 1)

lessAt(s, i, j) == candidateLess(At(s, i), At(s, j))

\* insertionSort_func on s[a:b]: the inner loop, then the outer loop from i
RECURSIVE sinkDownTo(_, _, _)
sinkDownTo(s, j, a) ==
    IF j > a /\ lessAt(s, j, j - 1) THEN sinkDownTo(SwapAt(s, j, j - 1), j - 1, a)
    ELSE s

RECURSIVE insertionSort(_, _, _, _)
insertionSort(s, a, b, i) ==
    IF i >= b THEN s ELSE insertionSort(sinkDownTo(s, i, a), a, b, i + 1)

\* order2_func on the indices kept in p: [a, b, swaps]
order2(s, a, b, swaps) ==
    IF lessAt(s, b, a) THEN [a |-> b, b |-> a, swaps |-> swaps + 1]
    ELSE [a |-> a, b |-> b, swaps |-> swaps]

\* median_func: the three calls of order2_func, one after the other
medianLast(s, first, second) == order2(s, first.a, second.a, second.swaps)

medianSecond(s, first, c) == medianLast(s, first, order2(s, first.b, c, first.swaps))

median(s, a, b, c) == medianSecond(s, order2(s, a, b, 0), c)

\* choosePivot_func on s[a:b], for 8 <= b - a < 50: the median of the
\* elements at the three quarters, and the number of swaps it took
choosePivot(s, a, b) ==
    median(s, a + ((b - a) \div 4) * 1, a + ((b - a) \div 4) * 2, a + ((b - a) \div 4) * 3)

\* partialInsertionSort_func on s[a:b], for b - a < 50: whether the range
\* is in order already; a short range is never changed
RECURSIVE firstUnordered(_, _, _)
firstUnordered(s, i, b) ==
    IF i < b /\ ~lessAt(s, i, i - 1) THEN firstUnordered(s, i + 1, b) ELSE i

partialInsertionSort(s, a, b) == firstUnordered(s, a + 1, b) = b

\* partition_func: the two scans, with the pivot at a
RECURSIVE scanUp(_, _, _, _)
scanUp(s, i, j, a) ==
    IF i <= j /\ lessAt(s, i, a) THEN scanUp(s, i + 1, j, a) ELSE i

RECURSIVE scanDown(_, _, _, _)
scanDown(s, i, j, a) ==
    IF i <= j /\ ~lessAt(s, j, a) THEN scanDown(s, i, j - 1, a) ELSE j

\* the loop of partition_func, entered with the scans done: i and j are
\* where they stopped
RECURSIVE partitionLoop(_, _, _, _)
RECURSIVE partitionScanned(_, _, _, _)
partitionLoop(s, i, j, a) ==
    IF i > j THEN [s |-> SwapAt(s, j, a), mid |-> j]
    ELSE partitionScanned(SwapAt(s, i, j), i + 1, j - 1, a)

partitionScanned(s, i, j, a) ==
    partitionLoop(s, scanUp(s, i, j, a), scanDown(s, scanUp(s, i, j, a), j, a), a)

partition(s, a, b, pivot) == partitionScanned(SwapAt(s, a, pivot), a + 1, b - 1, a)

\* pdqsort_func after the partition: a range of at most maxInsertion
\* elements on each side of mid is sorted by insertion
sortSides(parted, a, b) ==
    insertionSort(insertionSort(parted.s, a, parted.mid, a + 1), parted.mid + 1, b, parted.mid + 2)

\* pdqsort_func on a slice of maxInsertion + 1 elements: no pattern is
\* broken before the first partition, and both sides are short after it
pdqsortChosen(s, n, chosen) ==
    IF chosen.swaps = 0 /\ partialInsertionSort(s, 0, n) THEN s
    ELSE sortSides(partition(s, 0, n, chosen.b), 0, n)

pdqsort(s, n) ==
    IF n <= maxInsertion THEN insertionSort(s, 0, n, 1)
    ELSE pdqsortChosen(s, n, choosePivot(s, 0, n))

\* mutant: the candidates are left in listing order
sortCandidates_unsorted(candidates) == candidates

\* sort.Slice(validCandidates, less)
sortCandidates(candidates) == pdqsort(candidates, Len(candidates))

SelectError(kind) == [err |-> kind, filename |-> <<>>]

\* mutant: the test for "no candidates at all" is missing
findBestPackageVersion_noEmptyCheck(files, listErr, pkg) ==
    IF listErr THEN SelectError("ListFailed")
    ELSE LET candidates == parseCandidates(files, pkg.Name)
             validCandidates == filterCandidates(candidates, pkg.Version)
         IN IF Len(validCandidates) = 0 THEN SelectError("NoVersionSatisfiesConstraint")
            ELSE [err |-> "", filename |-> sortCandidates(validCandidates)[1].Filename]

\* files and listErr are what sshClient.ListFiles returned.  The two
\* selection errors are the messages "no packages found for <name>" and
\* "no packages found for <name> matching constraint <constraint>".
findBestPackageVersion(files, listErr, pkg) ==
    IF listErr THEN SelectError("ListFailed")
    ELSE LET candidates == parseCandidates(files, pkg.Name)
             validCandidates == filterCandidates(candidates, pkg.Version)
         IN IF Len(candidates) = 0 THEN SelectError("NoPackagesFound")
            ELSE IF Len(validCandidates) = 0
            THEN SelectError("NoVersionSatisfiesConstraint")
            ELSE [err |-> "", filename |-> sortCandidates(validCandidates)[1].Filename]

\* <name>-<version>.tar.gz
PackageFile(name, version) == name \o <<"-">> \o version \o TarGz

PackageNames == {<<"p">>, <<"p", "-", "t">>}

\* versions found in remote file names: 1.0, 1.0.0, 2.0, 1.5, and two that
\* do not parse; the other files are of the packages p-t, p-1. and q, and
\* two are not of the shape
RemoteVersions ==
    { <<"1", ".", "0">>, <<"1", ".", "0", ".", "0">>, <<"2", ".", "0">>,
      <<"1", ".", "5">>, <<"x">>, <<"1">> }

RemoteFiles ==
    {PackageFile(<<"p">>, v) : v \in RemoteVersions}
        \cup { PackageFile(<<"p", "-", "t">>, <<"1", ".", "0">>),
               PackageFile(<<"p", "-", "1", ".">>, <<"0", ".", "3">>),
               PackageFile(<<"q">>, <<"9", ".", "0">>),
               <<"p", "-", "3", ".", "0", ".", "z", "i", "p">>,
               <<"p">> \o TarGz }

RequestConstraints ==
    { <<>>,
      <<">", "=", "1", ".", "2">>,
      <<">", "=", "3", ".", "0">>,
      <<"<", " ", "2", ".", "0">>,
      <<"1", ".", "0">>,
      <<">", "x">> }

\* a directory listing: no name twice
Listings ==
    {l \in UNION {[1..k -> RemoteFiles] : k \in 0..MaxListing} :
        \A i \in 1..Len(l), j \in 1..Len(l) : i # j => l[i] # l[j]}

\* listings of maxInsertion + 1 files of the package p: eleven files of
\* versions 0.1 to 1.1, upwards or downwards, and the files p-9.0.tar.gz
\* and p-9.0.0.tar.gz of one version at any two places, in either order
FillerVersions ==
    << <<"0", ".", "1">>, <<"0", ".", "2">>, <<"0", ".", "3">>, <<"0", ".", "4">>,
       <<"0", ".", "5">>, <<"0", ".", "6">>, <<"0", ".", "7">>, <<"0", ".", "8">>,
       <<"0", ".", "9">>, <<"1", ".", "0">>, <<"1", ".", "1">> >>

FillersUp == [k \in 1..(maxInsertion - 1) |-> PackageFile(<<"p">>, FillerVersions[k])]

FillersDown == [k \in 1..(maxInsertion - 1) |-> FillersUp[maxInsertion - k]]

TiedFiles ==
    { PackageFile(<<"p">>, <<"9", ".", "0">>), PackageFile(<<"p">>, <<"9", ".", "0", ".", "0">>) }

\* fillers with x put at place i and y at place j
Place(fillers, i, j, x, y) ==
    [k \in 1..(Len(fillers) + 2) |->
        IF k = i THEN x
        ELSE IF k = j THEN y
        ELSE fillers[k - (IF k > i THEN 1 ELSE 0) - (IF k > j THEN 1 ELSE 0)]]

LongListings ==
    {Place(f, i, j, x, y) :
        f \in {FillersUp, FillersDown},
        i \in 1..maxInsertion, j \in 2..(maxInsertion + 1),
        x \in TiedFiles, y \in TiedFiles} \ {<<>>}

InitSelect ==
    /\ call \in {[op |-> "findBestPackageVersion", files |-> l, listErr |-> e,
                  pkg |-> [Name |-> n, Version |-> c]] :
                    l \in Listings \cup {g \in LongListings :
                                             \A i, j \in 1..Len(g) : g[i] = g[j] => i = j},
                    e \in BOOLEAN,
                    n \in PackageNames, c \in RequestConstraints}
    /\ ret = NotReturned
    /\ ArchiveIdle

CallFindBestPackageVersion ==
    /\ call.op = "findBestPackageVersion"
    /\ ret = NotReturned
    /\ ret' = findBestPackageVersion(call.files, call.listErr, call.pkg)
    /\ UNCHANGED <<remoteVars, call, archiveVars>>

NextSelect == CallFindBestPackageVersion

SpecSelect == InitSelect /\ [][NextSelect]_vars

(***************************************************************************)
(* Paths (path/filepath on Unix).                                          *)
(***************************************************************************)
Slash == <<"/">>

Dot == <<".">>

DotDot == <<".", ".">>

Last(s) == s[Len(s)]

Front(s) == SubSeq(s, 1, Len(s) - 1)

\* the elements of a path: what lies between its separators
Elements(path) == SelectSeq(Split(path, Slash), LAMBDA e : e # <<>>)

RECURSIVE JoinSlash(_)
JoinSlash(elems) ==
    IF Len(elems) = 0 THEN <<>>
    ELSE IF Len(elems) = 1 THEN elems[1]
    ELSE elems[1] \o Slash \o JoinSlash(Tail(elems))

IsAbs(path) == Len(path) > 0 /\ path[1] = "/"

\* Clean's pass over the elements: "." is dropped, ".." removes the element
\* before it, is dropped at the root and kept at the start of a relative path
RECURSIVE cleanElements(_, _, _)
cleanElements(out, elems, rooted) ==
    IF Len(elems) = 0 THEN out
    ELSE LET e == Head(elems)
         IN IF e = Dot THEN cleanElements(out, Tail(elems), rooted)
            ELSE IF e = DotDot
            THEN IF Len(out) > 0 /\ Last(out) # DotDot
                 THEN cleanElements(Front(out), Tail(elems), rooted)
                 ELSE IF rooted THEN cleanElements(out, Tail(elems), rooted)
                 ELSE cleanElements(Append(out, e), Tail(elems), rooted)
            ELSE cleanElements(Append(out, e), Tail(elems), rooted)

\* filepath.Clean
Clean(path) ==
    LET body == JoinSlash(cleanElements(<<>>, Elements(path), IsAbs(path)))
        out == IF IsAbs(path) THEN Slash \o body ELSE body
    IN IF out = <<>> THEN Dot ELSE out

\* filepath.Join of two elements: empty elements are ignored, the result is
\* cleaned, and it is empty when both are
Join(a, b) ==
    IF a = <<>> /\ b = <<>> THEN <<>>
    ELSE IF a = <<>> THEN Clean(b)
    ELSE Clean(a \o Slash \o b)

\* filepath.Abs in working directory wd
Abs(path, wd) == IF IsAbs(path) THEN Clean(path) ELSE Join(wd, path)

\* the index of the last separator of path, 0 for none
LastSlash(path) ==
    LET at == {i \in 1..Len(path) : path[i] = "/"}
    IN IF at = {} THEN 0 ELSE CHOOSE i \in at : \A j \in at : j <= i

\* filepath.Dir
Dir(path) == Clean(SubSeq(path, 1, LastSlash(path)))

RECURSIVE stripSlashes(_)
stripSlashes(path) ==
    IF Len(path) > 0 /\ Last(path) = "/" THEN stripSlashes(Front(path)) ELSE path

\* filepath.Base
Base(path) ==
    IF path = <<>> THEN Dot
    ELSE LET p == stripSlashes(path)
         IN IF p = <<>> THEN Slash ELSE SubSeq(p, LastSlash(p) + 1, Len(p))

(***************************************************************************)
(* The file system.  Paths of the disk are absolute and clean; there are   *)
(* no symbolic links and permissions never deny access.                    *)
(***************************************************************************)
Exists(d, path) == \E f \in d : f.path = path

IsDirectory(d, path) == \E f \in d : f.path = path /\ f.kind = "dir"

IsFile(d, path) == \E f \in d : f.path = path /\ f.kind = "file"

\* path and the directories above it, for an absolute clean path
RECURSIVE Chain(_)
Chain(path) == IF path = Slash THEN {path} ELSE {path} \cup Chain(Dir(path))

\* os.MkdirAll: every missing directory of the chain is made; it fails, and
\* makes nothing, when an element of the chain is a file
MkdirAll(d, path) ==
    IF \E q \in Chain(path) : IsFile(d, q) THEN [err |-> "IOError", disk |-> d]
    ELSE [err |-> "",
          disk |-> d \cup {[path |-> q, kind |-> "dir", data |-> ""] :
                              q \in {c \in Chain(path) : ~Exists(d, c)}}]

\* os.OpenFile(O_WRONLY|O_CREATE|O_TRUNC) and io.Copy: the file is created
\* or replaced; it fails on a directory and in a directory that is missing
WriteFile(d, path, data) ==
    IF IsDirectory(d, path) \/ ~IsDirectory(d, Dir(path)) THEN [err |-> "IOError", disk |-> d]
    ELSE [err |-> "",
          disk |-> {f \in d : f.path # path}
                      \cup {[path |-> path, kind |-> "file", data |-> data]}]

(***************************************************************************)
(* Extraction (files.go, extractFileFromTar).                              *)
(***************************************************************************)
\* mutant: the containment test is made once on the output directory alone
insideOutputDir_noCheck(outDir, name) == TRUE

\* the security check: the clean target is the clean output directory or
\* starts with it and a separator
insideOutputDir(outDir, name) ==
    LET targetPath == Join(outDir, name)
        cleanOutputDir == Clean(outDir)
        cleanTargetPath == Clean(targetPath)
    IN HasPrefix(cleanTargetPath, cleanOutputDir \o Slash)
          \/ cleanTargetPath = cleanOutputDir

\* one entry: header is [Name, Typeflag, data]; relative paths are resolved
\* by the system in working directory wd
extractFileFromTar(d, header, outDir, wd) ==
    LET targetPath == Join(outDir, header.Name)
    IN IF ~insideOutputDir(outDir, header.Name) THEN [err |-> "IllegalPath", disk |-> d]
       ELSE IF header.Typeflag = "dir"
       THEN IF targetPath = <<>> THEN [err |-> "IOError", disk |-> d]
            ELSE MkdirAll(d, Abs(targetPath, wd))
       ELSE IF header.Typeflag = "reg"
       THEN LET made == MkdirAll(d, Abs(Dir(targetPath), wd))
            IN IF made.err # "" THEN made
               ELSE IF targetPath = <<>> THEN [err |-> "IOError", disk |-> made.disk]
               ELSE WriteFile(made.disk, Abs(targetPath, wd), header.data)
       ELSE [err |-> "", disk |-> d]

(***************************************************************************)
(* ExtractTarGz on an archive from anywhere: the entries are whatever the  *)
(* tar stream holds.  One action per pass of the read loop.                *)
(***************************************************************************)
WorkDir == <<"/", "h", "/", "w">>

Directory(path) == [path |-> path, kind |-> "dir", data |-> ""]

File(path, data) == [path |-> path, kind |-> "file", data |-> data]

\* an empty working directory /h/w
BaseDisk == {Directory(q) : q \in Chain(WorkDir)}

\* output directories a caller may pass: absolute, relative, the working
\* directory, its parent, the root, with a trailing separator, empty
OutputDirs ==
    { <<"/", "o">>, <<"/", "o", "/">>, <<"/">>, <<"/", "h">>,
      <<"o">>, <<"o", "/", "p">>, <<".">>, <<>>, <<".", ".">>,
      <<".", ".", "/", "o">> }

EntryNames ==
    { <<"a">>, <<"b">>, <<"a", "/", "b">>, <<"a", "/", ".", ".", "/", "b">>,
      <<".">>, <<".", ".">>, <<".", ".", "/", "a">>,
      <<".", ".", "/", ".", ".", "/", "a">>, <<"a", "/", ".", ".", "/", ".", ".", "/", "b">>,
      <<"/", "a">>, <<"/", "h", "/", "a">>, <<".", ".", "/", "o", "x">> }

Headers ==
    [Name : EntryNames, Typeflag : {"reg", "dir"}, data : {"x"}]
        \cup [Name : {<<"a">>, <<".", ".", "/", "a">>}, Typeflag : {"symlink"}, data : {""}]

InitExtract ==
    /\ call = [op |-> "ExtractTarGz"]
    /\ ret = NotReturned
    /\ cwd = WorkDir
    /\ disk = BaseDisk
    /\ collected = <<>>
    /\ pending = <<>>
    /\ outputDir \in OutputDirs
    /\ headersRead = <<>>
    /\ xstate = "extracting"
    /\ xerr = ""
    /\ RemoteIdle

\* mutant: the read loop goes on after an entry failed
ExtractEntry_keepGoing(header) ==
    LET r == extractFileFromTar(disk, header, outputDir, cwd)
    IN /\ headersRead' = Append(headersRead, header)
       /\ disk' = r.disk
       /\ xerr' = r.err
       /\ xstate' = "extracting"

\* the body of the read loop for the header tarReader.Next returned
ExtractEntry(header) ==
    LET r == extractFileFromTar(disk, header, outputDir, cwd)
    IN /\ headersRead' = Append(headersRead, header)
       /\ disk' = r.disk
       /\ xerr' = r.err
       /\ xstate' = IF r.err = "" THEN "extracting" ELSE "failed"

ReadForeignEntry ==
    /\ call.op = "ExtractTarGz"
    /\ xstate = "extracting"
    /\ Len(headersRead) < MaxEntries
    /\ \E header \in Headers : ExtractEntry(header)
    /\ UNCHANGED <<remoteVars, call, ret, cwd, collected, pending, outputDir>>

\* tarReader.Next returned io.EOF
ReadForeignEOF ==
    /\ call.op = "ExtractTarGz"
    /\ xstate = "extracting"
    /\ xstate' = "ok"
    /\ ret' = [err |-> ""]
    /\ UNCHANGED <<remoteVars, call, cwd, disk, collected, pending, outputDir, headersRead, xerr>>

\* tarReader.Next returned another error: the stream is damaged
ReadBadHeader ==
    /\ call.op = "ExtractTarGz"
    /\ xstate = "extracting"
    /\ xstate' = "failed"
    /\ xerr' = "ReadError"
    /\ UNCHANGED <<remoteVars, call, ret, cwd, disk, collected, pending, outputDir, headersRead>>

NextExtract == ReadForeignEntry \/ ReadForeignEOF \/ ReadBadHeader

SpecExtract == InitExtract /\ [][NextExtract]_vars

(***************************************************************************)
(* Pattern collection (collectFilesByPatterns, expandRecursivePattern).    *)
(***************************************************************************)
\* the characters of file names, in byte order
CharOrder ==
    <<"*", "-", ".", "/", "0", "1", "2", "3", "4", "5", "6", "7", "8", "9", "?",
      "[", "\\", "]", "^",
      "a", "b", "c", "d", "e", "f", "g", "h", "i", "j", "k", "l", "m", "n", "o",
      "p", "q", "r", "s", "t", "u", "v", "w", "x", "y", "z">>

CharRank(c) == CHOOSE i \in 1..Len(CharOrder) : CharOrder[i] = c

\* a < b as strings
StringLess(a, b) ==
    \/ Len(a) < Len(b) /\ SubSeq(b, 1, Len(a)) = a
    \/ \E i \in 1..Len(a) :
          /\ i <= Len(b)
          /\ SubSeq(a, 1, i - 1) = SubSeq(b, 1, i - 1)
          /\ CharRank(a[i]) < CharRank(b[i])

\* the strings of a set in increasing order
RECURSIVE Sorted(_)
Sorted(names) ==
    IF names = {} THEN <<>>
    ELSE LET least == CHOOSE n \in names : \A m \in names \ {n} : StringLess(n, m)
         IN <<least>> \o Sorted(names \ {least})

\* ErrBadPattern
BadPattern == [matched |-> FALSE, err |-> TRUE]

BadChunk == [rest |-> <<>>, ok |-> FALSE, err |-> TRUE]

\* scanChunk: the pattern without its leading stars
RECURSIVE dropStars(_)
dropStars(pattern) ==
    IF pattern # <<>> /\ pattern[1] = "*" THEN dropStars(Tail(pattern)) ELSE pattern

\* scanChunk: the length of the chunk, which ends before the first star
\* outside a character class; i is the position looked at
RECURSIVE chunkLen(_, _, _)
chunkLen(pattern, i, inrange) ==
    IF i > Len(pattern) THEN Len(pattern)
    ELSE IF pattern[i] = "\\"
    THEN chunkLen(pattern, IF i + 1 <= Len(pattern) THEN i + 2 ELSE i + 1, inrange)
    ELSE IF pattern[i] = "[" THEN chunkLen(pattern, i + 1, TRUE)
    ELSE IF pattern[i] = "]" THEN chunkLen(pattern, i + 1, FALSE)
    ELSE IF pattern[i] = "*" /\ ~inrange THEN i - 1
    ELSE chunkLen(pattern, i + 1, inrange)

cutChunk(star, pattern, n) ==
    [star |-> star, chunk |-> SubSeq(pattern, 1, n), rest |-> SubSeq(pattern, n + 1, Len(pattern))]

scanStripped(star, pattern) == cutChunk(star, pattern, chunkLen(pattern, 1, FALSE))

scanChunk(pattern) == scanStripped(pattern # <<>> /\ pattern[1] = "*", dropStars(pattern))

\* getEsc after the escape: the character, and an error when nothing follows
getRune(chunk) == [err |-> Len(chunk) = 1, r |-> CharRank(chunk[1]), chunk |-> Tail(chunk)]

\* getEsc: one possibly escaped character of a character class
getEsc(chunk) ==
    IF chunk = <<>> \/ chunk[1] \in {"-", "]"} THEN [err |-> TRUE, r |-> 0, chunk |-> <<>>]
    ELSE IF chunk[1] = "\\"
    THEN (IF Len(chunk) = 1 THEN [err |-> TRUE, r |-> 0, chunk |-> <<>>]
          ELSE getRune(Tail(chunk)))
    ELSE getRune(chunk)

\* matchChunk, the loop over the ranges of a class: r is the rank of the
\* character read, 0 when the match had failed
RECURSIVE parseRanges(_, _, _, _)
RECURSIVE rangeFrom(_, _, _, _, _)
RECURSIVE rangeTo(_, _, _, _, _, _)
parseRanges(chunk, r, match, nrange) ==
    IF chunk # <<>> /\ chunk[1] = "]" /\ nrange > 0
    THEN [err |-> FALSE, chunk |-> Tail(chunk), match |-> match]
    ELSE rangeFrom(getEsc(chunk), chunk, r, match, nrange)

rangeFrom(lo, chunk, r, match, nrange) ==
    IF lo.err THEN [err |-> TRUE, chunk |-> <<>>, match |-> FALSE]
    ELSE IF lo.chunk[1] = "-"
    THEN rangeTo(lo, getEsc(Tail(lo.chunk)), chunk, r, match, nrange)
    ELSE parseRanges(lo.chunk, r, match \/ lo.r = r, nrange + 1)

rangeTo(lo, hi, chunk, r, match, nrange) ==
    IF hi.err THEN [err |-> TRUE, chunk |-> <<>>, match |-> FALSE]
    ELSE parseRanges(hi.chunk, r, match \/ (lo.r <= r /\ r <= hi.r), nrange + 1)

\* the chunk after "[" and a "^"
afterNegation(chunk) == IF chunk # <<>> /\ chunk[1] = "^" THEN Tail(chunk) ELSE chunk

\* matchChunk: after a failure the chunk is still read to the end, to find
\* whether it is well formed
RECURSIVE matchChunkFrom(_, _, _)
RECURSIVE matchClass(_, _, _, _)
matchChunkFrom(chunk, s, failedBefore) ==
    IF chunk = <<>>
    THEN (IF failedBefore THEN [rest |-> <<>>, ok |-> FALSE, err |-> FALSE]
          ELSE [rest |-> s, ok |-> TRUE, err |-> FALSE])
    ELSE IF chunk[1] = "["
    THEN matchClass(parseRanges(afterNegation(Tail(chunk)),
                                IF failedBefore \/ s = <<>> THEN 0 ELSE CharRank(s[1]),
                                FALSE, 0),
                    Len(chunk) > 1 /\ chunk[2] = "^", s, failedBefore \/ s = <<>>)
    ELSE IF chunk[1] = "?"
    THEN matchChunkFrom(Tail(chunk),
                        IF failedBefore \/ s = <<>> THEN s ELSE Tail(s),
                        failedBefore \/ s = <<>> \/ s[1] = "/")
    ELSE IF chunk[1] = "\\" /\ Len(chunk) = 1 THEN BadChunk
    ELSE IF chunk[1] = "\\"
    THEN matchChunkFrom(Tail(Tail(chunk)),
                        IF failedBefore \/ s = <<>> THEN s ELSE Tail(s),
                        failedBefore \/ s = <<>> \/ chunk[2] # s[1])
    ELSE matchChunkFrom(Tail(chunk),
                        IF failedBefore \/ s = <<>> THEN s ELSE Tail(s),
                        failedBefore \/ s = <<>> \/ chunk[1] # s[1])

matchClass(ranges, negated, s, failed) ==
    IF ranges.err THEN BadChunk
    ELSE matchChunkFrom(ranges.chunk, IF failed THEN s ELSE Tail(s),
                        failed \/ ranges.match = negated)

matchChunk(chunk, s) == matchChunkFrom(chunk, s, FALSE)

\* Match, before it returns false: the rest of the pattern is checked
RECURSIVE validateRest(_)
RECURSIVE validateChunk(_)
validateRest(pattern) ==
    IF pattern = <<>> THEN [matched |-> FALSE, err |-> FALSE]
    ELSE validateChunk(scanChunk(pattern))

validateChunk(sc) ==
    IF matchChunk(sc.chunk, <<>>).err THEN BadPattern ELSE validateRest(sc.rest)

\* filepath.Match: [matched, err], err for ErrBadPattern
RECURSIVE Match(_, _)
RECURSIVE matchScanned(_, _)
RECURSIVE matchHere(_, _, _)
RECURSIVE starSearch(_, _, _)
RECURSIVE starFound(_, _, _, _)
Match(pattern, name) ==
    IF pattern = <<>> THEN [matched |-> name = <<>>, err |-> FALSE]
    ELSE matchScanned(scanChunk(pattern), name)

matchScanned(sc, name) ==
    IF sc.star /\ sc.chunk = <<>>
    THEN [matched |-> \A i \in 1..Len(name) : name[i] # "/", err |-> FALSE]
    ELSE matchHere(sc, matchChunk(sc.chunk, name), name)

\* the chunk was tried at the current position
matchHere(sc, m, name) ==
    IF m.ok /\ (m.rest = <<>> \/ sc.rest # <<>>) THEN Match(sc.rest, m.rest)
    ELSE IF m.err THEN BadPattern
    ELSE IF sc.star THEN starSearch(sc, name, 0)
    ELSE validateRest(sc.rest)

\* the chunk is tried after skipping i + 1 characters, none a separator
starSearch(sc, name, i) ==
    IF i < Len(name) /\ name[i + 1] # "/"
    THEN starFound(sc, matchChunk(sc.chunk, SubSeq(name, i + 2, Len(name))), name, i)
    ELSE validateRest(sc.rest)

starFound(sc, m, name, i) ==
    IF m.ok /\ sc.rest = <<>> /\ m.rest # <<>> THEN starSearch(sc, name, i + 1)
    ELSE IF m.ok THEN Match(sc.rest, m.rest)
    ELSE IF m.err THEN BadPattern
    ELSE starSearch(sc, name, i + 1)

hasMeta(path) == \E i \in 1..Len(path) : path[i] \in {"*", "?", "[", "\\"}

\* the names in directory dir (an absolute clean path)
ChildNames(d, dir) == {Base(f.path) : f \in {g \in d : g.path # Slash /\ Dir(g.path) = dir}}

\* Glob's helper glob: the entries of dir whose name matches, in name order
joinEach(dir, names) == [i \in 1..Len(names) |-> Join(dir, names[i])]

globDir(d, dir, pattern, wd) ==
    IF ~IsDirectory(d, Abs(dir, wd)) THEN <<>>
    ELSE joinEach(dir, Sorted({n \in ChildNames(d, Abs(dir, wd)) : Match(pattern, n).matched}))

cleanGlobPath(dir) ==
    IF dir = <<>> THEN Dot ELSE IF dir = Slash THEN dir ELSE Front(dir)

\* Glob's loop over the directories that matched
RECURSIVE globDirs(_, _, _, _)
globDirs(d, dirs, pattern, wd) ==
    IF Len(dirs) = 0 THEN <<>>
    ELSE globDir(d, Head(dirs), pattern, wd) \o globDirs(d, Tail(dirs), pattern, wd)

\* Glob's loop when the directory part has wildcards; found is what Glob
\* returned for the directory part
globFound(d, found, file, wd) ==
    IF found.err # "" THEN found
    ELSE [err |-> "", matches |-> globDirs(d, found.matches, file, wd)]

\* filepath.Glob: [err, matches].  The pattern is checked first, so that a
\* malformed pattern fails whatever the directories hold
RECURSIVE Glob(_, _, _)
Glob(d, pattern, wd) ==
    IF Match(pattern, <<>>).err THEN [err |-> "ErrBadPattern", matches |-> <<>>]
    ELSE IF ~hasMeta(pattern)
    THEN [err |-> "",
          matches |-> IF pattern # <<>> /\ Exists(d, Abs(pattern, wd))
                      THEN <<pattern>> ELSE <<>>]
    ELSE LET dir == cleanGlobPath(SubSeq(pattern, 1, LastSlash(pattern)))
             file == SubSeq(pattern, LastSlash(pattern) + 1, Len(pattern))
         IN IF ~hasMeta(dir) THEN [err |-> "", matches |-> globDir(d, dir, file, wd)]
            ELSE globFound(d, Glob(d, dir, wd), file, wd)

\* filepath.Walk with the callback of expandRecursivePattern: the regular
\* files at or under path, directories in name order, that match suffix
RECURSIVE walk(_, _, _, _)
RECURSIVE walkNames(_, _, _, _, _)
walk(d, path, suffix, wd) ==
    IF IsFile(d, Abs(path, wd))
    THEN IF suffix = <<>> \/ Match(suffix, Base(path)).matched THEN <<path>> ELSE <<>>
    ELSE IF IsDirectory(d, Abs(path, wd))
    THEN walkNames(d, path, Sorted(ChildNames(d, Abs(path, wd))), suffix, wd)
    ELSE <<>>

\* Walk's loop over the names of the directory path
walkNames(d, path, names, suffix, wd) ==
    IF Len(names) = 0 THEN <<>>
    ELSE walk(d, Join(path, Head(names)), suffix, wd)
            \o walkNames(d, path, Tail(names), suffix, wd)

\* mutant: a walk root that does not exist is an error
walkFrom_missingRootFails(d, basePath, suffix, wd) ==
    IF ~Exists(d, Abs(basePath, wd)) THEN [err |-> "InvalidPattern", matches |-> <<>>]
    ELSE [err |-> "", matches |-> walk(d, basePath, suffix, wd)]

\* the walk from basePath, after the split of the pattern
walkFrom(d, basePath, suffix, wd) ==
    IF ~Exists(d, Abs(basePath, wd)) THEN [err |-> "", matches |-> <<>>]
    ELSE [err |-> "", matches |-> walk(d, basePath, suffix, wd)]

\* the text before "**" without one trailing separator; empty means "."
recursiveBase(prefix) ==
    IF prefix = <<>> THEN Dot
    ELSE IF HasSuffix(prefix, Slash)
    THEN (IF Len(prefix) = 1 THEN Dot ELSE Front(prefix))
    ELSE prefix

\* the text after "**" without one leading separator
recursiveSuffix(rest) ==
    IF rest # <<>> /\ HasPrefix(rest, Slash) THEN Tail(rest) ELSE rest

expandParts(d, parts, wd) ==
    IF Len(parts) # 2 THEN [err |-> "InvalidPattern", matches |-> <<>>]
    ELSE walkFrom(d, recursiveBase(parts[1]), recursiveSuffix(parts[2]), wd)

expandRecursivePattern(d, pattern, wd) == expandParts(d, Split(pattern, <<"*", "*">>), wd)

\* mutant: every match that is a file is appended, seen before or not
addMatch_noSeenCheck(d, allFiles, absPath) ==
    IF IsFile(d, absPath) THEN Append(allFiles, absPath) ELSE allFiles

\* the inner loop: the matches that are files and were not seen are appended
addMatch(d, allFiles, absPath) ==
    IF IsFile(d, absPath) /\ ~(\E i \in 1..Len(allFiles) : allFiles[i] = absPath)
    THEN Append(allFiles, absPath)
    ELSE allFiles

RECURSIVE addMatches(_, _, _, _)
addMatches(d, allFiles, matches, wd) ==
    IF Len(matches) = 0 THEN allFiles
    ELSE addMatches(d, addMatch(d, allFiles, Abs(Head(matches), wd)), Tail(matches), wd)

\* the matches of one pattern
matchPattern(d, pattern, wd) ==
    IF Index(pattern, <<"*", "*">>) # 0
    THEN expandRecursivePattern(d, pattern, wd)
    ELSE Glob(d, pattern, wd)

RECURSIVE collectInto(_, _, _, _)
RECURSIVE collectFound(_, _, _, _, _)
collectInto(d, allFiles, patterns, wd) ==
    IF Len(patterns) = 0 THEN [err |-> "", files |-> allFiles]
    ELSE collectFound(d, allFiles, matchPattern(d, Head(patterns), wd), Tail(patterns), wd)

\* the rest of the loop body, once the pattern was matched
collectFound(d, allFiles, found, rest, wd) ==
    IF found.err # "" THEN [err |-> "InvalidPattern", files |-> <<>>]
    ELSE collectInto(d, addMatches(d, allFiles, found.matches, wd), rest, wd)

collectFilesByPatterns(d, patterns, wd) == collectInto(d, <<>>, patterns, wd)

\* the loop over the exclude patterns for one base name: "excluded",
\* "kept", or "error" when a pattern reached is malformed
RECURSIVE shouldExclude(_, _)
RECURSIVE excludeMatched(_, _, _)
shouldExclude(excludePatterns, fileName) ==
    IF Len(excludePatterns) = 0 THEN "kept"
    ELSE excludeMatched(Match(Head(excludePatterns), fileName), Tail(excludePatterns), fileName)

excludeMatched(m, rest, fileName) ==
    IF m.err THEN "error"
    ELSE IF m.matched THEN "excluded"
    ELSE shouldExclude(rest, fileName)

\* mutant: the exclude patterns are matched against the whole path
filterExcluded_wholePath(files, excludePatterns, filteredFiles) ==
    [err |-> "",
     files |-> filteredFiles \o SelectSeq(files, LAMBDA f : shouldExclude(excludePatterns, f) = "kept")]

\* the loop over the collected files; filteredFiles are the files kept so far
RECURSIVE filterExcluded(_, _, _)
RECURSIVE filterDecided(_, _, _, _)
filterExcluded(files, excludePatterns, filteredFiles) ==
    IF Len(files) = 0 THEN [err |-> "", files |-> filteredFiles]
    ELSE filterDecided(shouldExclude(excludePatterns, Base(Head(files))),
                       files, excludePatterns, filteredFiles)

filterDecided(decision, files, excludePatterns, filteredFiles) ==
    IF decision = "error" THEN [err |-> "InvalidPattern", files |-> <<>>]
    ELSE filterExcluded(Tail(files), excludePatterns,
                        IF decision = "excluded" THEN filteredFiles
                        ELSE Append(filteredFiles, Head(files)))

\* collectFilesByPatternsWithExclude after the include patterns were collected
excludeFrom(got, excludePatterns) ==
    IF got.err # "" THEN [err |-> got.err, files |-> <<>>]
    ELSE IF Len(excludePatterns) = 0 THEN got
    ELSE filterExcluded(got.files, excludePatterns, <<>>)

collectFilesByPatternsWithExclude(d, includePatterns, excludePatterns, wd) ==
    excludeFrom(collectFilesByPatterns(d, includePatterns, wd), excludePatterns)

(***************************************************************************)
(* Archive names and CreateTarGz.                                          *)
(***************************************************************************)
\* the length of the longest common prefix of two sequences
RECURSIVE CommonPrefix(_, _)
CommonPrefix(a, b) ==
    IF Len(a) > 0 /\ Len(b) > 0 /\ Head(a) = Head(b)
    THEN 1 + CommonPrefix(Tail(a), Tail(b)) ELSE 0

\* filepath.Rel of two clean paths; it fails when only one is absolute
relFrom(b, g, k) == JoinSlash([i \in 1..(Len(b) - k) |-> DotDot] \o SubSeq(g, k + 1, Len(g)))

relElements(b, g) == relFrom(b, g, CommonPrefix(b, g))

orDot(path) == IF path = <<>> THEN Dot ELSE path

Rel(basepath, targpath) ==
    IF IsAbs(basepath) # IsAbs(targpath) THEN [err |-> "RelError", path |-> <<>>]
    ELSE [err |-> "", path |-> orDot(relElements(Elements(basepath), Elements(targpath)))]

\* mutant: the name is always the base name of the file
getArchiveName_baseOnly(filePath, wd) == Base(Abs(filePath, wd))

\* the relative path, or what is used for it when filepath.Rel failed
relOrFallback(rel, absFilePath, absCwd) ==
    IF rel.err = "" THEN rel.path
    ELSE IF HasPrefix(absFilePath, absCwd \o Slash)
    THEN SubSeq(absFilePath, Len(absCwd) + 2, Len(absFilePath))
    ELSE IF absFilePath = absCwd THEN Dot
    ELSE Base(absFilePath)

\* no name leaves the archive root
withoutTraversal(relPath, absFilePath) ==
    IF HasPrefix(relPath, DotDot) THEN Base(absFilePath) ELSE relPath

\* no name is empty or "."
nonEmptyName(archiveName, absFilePath) ==
    IF archiveName = <<>> \/ archiveName = Dot THEN Base(absFilePath) ELSE archiveName

archiveNameOf(absFilePath, absCwd) ==
    nonEmptyName(
        withoutTraversal(
            relOrFallback(Rel(absCwd, absFilePath), absFilePath, absCwd), absFilePath),
        absFilePath)

getArchiveName(filePath, wd) == archiveNameOf(Abs(filePath, wd), Abs(wd, wd))

FileData(d, path) == (CHOOSE f \in d : f.path = path).data

\* the header and content addFileToTar writes for filePath
addFileToTar(d, filePath, wd) ==
    [Name |-> getArchiveName(filePath, wd), Typeflag |-> "reg", data |-> FileData(d, filePath)]

\* mutant: the output file is created before the collection is looked at
archiveFiles_createFirst(d, got, wd) ==
    IF got.err # "" THEN [err |-> got.err, files |-> <<>>, entries |-> <<>>, created |-> FALSE]
    ELSE IF Len(got.files) = 0
    THEN [err |-> "NoFilesMatched", files |-> <<>>, entries |-> <<>>, created |-> TRUE]
    ELSE [err |-> "", files |-> got.files,
          entries |-> [i \in 1..Len(got.files) |-> addFileToTar(d, got.files[i], wd)],
          created |-> TRUE]

\* CreateTarGz after the collection: the files collected, the entries
\* written, in order, and whether os.Create was reached
archiveFiles(d, got, wd) ==
    IF got.err # "" THEN [err |-> got.err, files |-> <<>>, entries |-> <<>>, created |-> FALSE]
    ELSE IF Len(got.files) = 0
    THEN [err |-> "NoFilesMatched", files |-> <<>>, entries |-> <<>>, created |-> FALSE]
    ELSE [err |-> "", files |-> got.files,
          entries |-> [i \in 1..Len(got.files) |-> addFileToTar(d, got.files[i], wd)],
          created |-> TRUE]

CreateTarGz(d, patterns, wd) == archiveFiles(d, collectFilesByPatterns(d, patterns, wd), wd)

\* CreateTarGz with include and exclude patterns, as create.go calls it:
\* the same, over the files collectFilesByPatternsWithExclude returns
CreateTarGzWithExclude(d, includePatterns, excludePatterns, wd) ==
    archiveFiles(d, collectFilesByPatternsWithExclude(d, includePatterns, excludePatterns, wd), wd)

(***************************************************************************)
(* Round trip: CreateTarGz on the patterns, then ExtractTarGz of the       *)
(* archive it wrote, entry by entry, into outputDir.                       *)
(***************************************************************************)
MaxPatterns == 2

\* where the archive is written: outside the trees that are collected
ArchivePath == <<"/", "x">>

\* files that may exist before the build: two in the working tree, two
\* outside it with one base name
SourceFiles ==
    { <<"/", "h", "/", "w", "/", "a">>, <<"/", "h", "/", "w", "/", "d", "/", "b">>,
      <<"/", "h", "/", "a">>, <<"/", "h", "/", "e", "/", "a">> }

\* the content of a source file is told by where it is
SourceData(path) ==
    CASE path = <<"/", "h", "/", "w", "/", "a">> -> "content of /h/w/a"
      [] path = <<"/", "h", "/", "w", "/", "d", "/", "b">> -> "content of /h/w/d/b"
      [] path = <<"/", "h", "/", "a">> -> "content of /h/a"
      [] path = <<"/", "h", "/", "e", "/", "a">> -> "content of /h/e/a"
      [] OTHER -> ""

SourceTree(paths) ==
    BaseDisk \cup {Directory(q) : q \in UNION {Chain(Dir(f)) : f \in paths}}
             \cup {File(f, SourceData(f)) : f \in paths}

SourceDisks == {SourceTree(paths) : paths \in SUBSET SourceFiles \ {{}}}

Patterns ==
    { <<"*">>, <<"a">>, <<"d", "/", "*">>, <<"*", "*">>, <<"d", "/", "*", "*", "/", "?">>,
      <<".", ".", "/", "*", "/", "a">>, <<"/", "h", "/", "a">>, <<"*", "*", "/", "*", "*">> }

PatternLists == UNION {[1..n -> Patterns] : n \in 1..MaxPatterns}

RoundTripDirs == { <<"/", "o">>, <<"o">>, <<"o", "/">>, <<".">>, <<".", ".", "/", "o">> }

InitRoundTrip ==
    /\ call \in [op : {"RoundTrip"}, patterns : PatternLists]
    /\ ret = NotReturned
    /\ cwd = WorkDir
    /\ disk \in SourceDisks
    /\ collected = <<>>
    /\ pending = <<>>
    /\ outputDir \in RoundTripDirs
    /\ headersRead = <<>>
    /\ xstate = "building"
    /\ xerr = ""
    /\ RemoteIdle

\* CreateTarGz(call.patterns, ArchivePath)
BuildArchive ==
    /\ call.op = "RoundTrip"
    /\ xstate = "building"
    /\ \E built \in {CreateTarGz(disk, call.patterns, cwd)} :
          IF built.err # ""
          THEN /\ xstate' = "failed"
               /\ xerr' = built.err
               /\ ret' = [err |-> built.err]
               /\ UNCHANGED <<disk, collected, pending>>
          ELSE /\ xstate' = "extracting"
               /\ collected' = built.files
               /\ pending' = built.entries
               /\ disk' = WriteFile(disk, ArchivePath, "tgz").disk
               /\ UNCHANGED <<xerr, ret>>
    /\ UNCHANGED <<remoteVars, call, cwd, outputDir, headersRead>>

\* ExtractTarGz(ArchivePath, outputDir): tarReader.Next returned the next
\* entry that was written
ReadBuiltEntry ==
    /\ call.op = "RoundTrip"
    /\ xstate = "extracting"
    /\ pending # <<>>
    /\ ExtractEntry(Head(pending))
    /\ pending' = Tail(pending)
    /\ ret' = IF xerr' = "" THEN ret ELSE [err |-> xerr']
    /\ UNCHANGED <<remoteVars, call, cwd, collected, outputDir>>

\* tarReader.Next returned io.EOF after the last entry
ReadBuiltEOF ==
    /\ call.op = "RoundTrip"
    /\ xstate = "extracting"
    /\ pending = <<>>
    /\ xstate' = "ok"
    /\ ret' = [err |-> ""]
    /\ UNCHANGED <<remoteVars, call, cwd, disk, collected, pending, outputDir, headersRead, xerr>>

NextRoundTrip == BuildArchive \/ ReadBuiltEntry \/ ReadBuiltEOF

SpecRoundTrip == InitRoundTrip /\ [][NextRoundTrip]_vars

(***************************************************************************)
(* Collection: collectFilesByPatterns, collectFilesByPatternsWithExclude   *)
(* and expandRecursivePattern, each called once on a tree of files.        *)
(***************************************************************************)
MaxExcludes == 2

\* a tree in the working directory /h/w: a, b.t, d/a, d/e/c.t, the empty
\* directory f.t, and the file /h/a outside
TreeFiles ==
    { <<"/", "h", "/", "w", "/", "a">>,
      <<"/", "h", "/", "w", "/", "b", ".", "t">>,
      <<"/", "h", "/", "w", "/", "d", "/", "a">>,
      <<"/", "h", "/", "w", "/", "d", "/", "e", "/", "c", ".", "t">>,
      <<"/", "h", "/", "a">> }

EmptyDirectory == <<"/", "h", "/", "w", "/", "f", ".", "t">>

\* the whole tree, a tree without the subdirectory d, an empty working directory
CollectDisks ==
    { SourceTree(TreeFiles) \cup {Directory(EmptyDirectory)},
      SourceTree({f \in TreeFiles : Len(f) <= 8}),
      BaseDisk }

\* include patterns: plain, recursive, leading outside, matching nothing,
\* malformed ones, and a second spelling of the file a
IncludePatterns ==
    { <<"*">>, <<"a">>, <<"d", "/", "*">>, <<"*", "/", "*">>, <<".", ".", "/", "a">>,
      <<"*", "*">>, <<"*", "*", "/", "*", ".", "t">>, <<"d", "/", "*", "*", "/", "a">>,
      <<"q", "/", "*", "*">>, <<"*", "*", "/", "*", "*">>, <<"[">>,
      <<"*", "*", "/", "[">>, <<".", "/", "a">> }

IncludeLists == UNION {[1..n -> IncludePatterns] : n \in 0..MaxPatterns}

\* the include lists given together with exclude lists
ExcludedIncludes ==
    { <<>>, <<<<"*">>>>, <<<<"*", "*">>>>, <<<<"q", "/", "*">>>>,
      <<<<"d", "/", "*">>, <<"*", "*", "/", "*", ".", "t">>>>, <<<<"[">>>> }

ExcludePatterns ==
    { <<"*", ".", "t">>, <<"a">>, <<"d", "/", "*", ".", "t">>, <<"[", "/", "a", "]">>,
      <<"*">>, <<"[">> }

ExcludeLists == UNION {[1..n -> ExcludePatterns] : n \in 0..MaxExcludes}

\* patterns given to expandRecursivePattern
RecursivePatterns ==
    { <<"*", "*">>, <<"*", "*", "/">>, <<"*", "*", "/", "*", ".", "t">>, <<"*", "*", "/", "a">>,
      <<"d", "/", "*", "*">>, <<"d", "/", "*", "*", "/", "?">>, <<"d", "*", "*", "a">>,
      <<"q", "/", "*", "*">>, <<"a", "/", "*", "*">>, <<".", ".", "/", "*", "*", "/", "a">>,
      <<"/", "h", "/", "*", "*", "/", "*", ".", "t">>, <<"*", "*", "/", "d", "/", "a">>,
      <<"*", "*", "/", "*", "*">>, <<"*", "*", "/", "[">>, <<"*", "*", "*">>, <<"a">> }

CollectCalls ==
    [op : {"collectFilesByPatterns"}, patterns : IncludeLists]
        \cup [op : {"collectFilesByPatternsWithExclude"},
              includePatterns : ExcludedIncludes, excludePatterns : ExcludeLists]
        \cup [op : {"expandRecursivePattern"}, pattern : RecursivePatterns]

InitCollect ==
    /\ call \in CollectCalls
    /\ ret = NotReturned
    /\ cwd = WorkDir
    /\ disk \in CollectDisks
    /\ collected = <<>>
    /\ pending = <<>>
    /\ outputDir = <<>>
    /\ headersRead = <<>>
    /\ xstate = "idle"
    /\ xerr = ""
    /\ RemoteIdle

CallCollectFilesByPatterns ==
    /\ call.op = "collectFilesByPatterns"
    /\ ret = NotReturned
    /\ ret' = collectFilesByPatterns(disk, call.patterns, cwd)
    /\ UNCHANGED <<remoteVars, call, archiveVars>>

CallCollectWithExclude ==
    /\ call.op = "collectFilesByPatternsWithExclude"
    /\ ret = NotReturned
    /\ ret' = collectFilesByPatternsWithExclude(disk, call.includePatterns,
                                                call.excludePatterns, cwd)
    /\ UNCHANGED <<remoteVars, call, archiveVars>>

CallExpandRecursivePattern ==
    /\ call.op = "expandRecursivePattern"
    /\ ret = NotReturned
    /\ ret' = expandRecursivePattern(disk, call.pattern, cwd)
    /\ UNCHANGED <<remoteVars, call, archiveVars>>

NextCollect ==
    CallCollectFilesByPatterns \/ CallCollectWithExclude \/ CallExpandRecursivePattern

SpecCollect == InitCollect /\ [][NextCollect]_vars

(***************************************************************************)
(* Build: CreateTarGz called once on a tree of files, with include         *)
(* patterns or with include and exclude patterns, writing ArchivePath.     *)
(***************************************************************************)
BuildCalls ==
    [op : {"CreateTarGz"}, patterns : IncludeLists]
        \cup [op : {"CreateTarGzWithExclude"},
              includePatterns : ExcludedIncludes, excludePatterns : ExcludeLists]

InitBuild ==
    /\ call \in BuildCalls
    /\ ret = NotReturned
    /\ cwd = WorkDir
    /\ disk \in CollectDisks
    /\ collected = <<>>
    /\ pending = <<>>
    /\ outputDir = <<>>
    /\ headersRead = <<>>
    /\ xstate = "building"
    /\ xerr = ""
    /\ RemoteIdle

\* what CreateTarGz leaves behind: the archive file when os.Create was
\* reached, the files collected and the entries written
Built(built) ==
    /\ disk' = IF built.created THEN WriteFile(disk, ArchivePath, "tgz").disk ELSE disk
    /\ collected' = built.files
    /\ pending' = built.entries
    /\ xstate' = IF built.err = "" THEN "ok" ELSE "failed"
    /\ xerr' = built.err
    /\ ret' = [err |-> built.err]
    /\ UNCHANGED <<remoteVars, call, cwd, outputDir, headersRead>>

CallCreateTarGz ==
    /\ call.op = "CreateTarGz"
    /\ ret = NotReturned
    /\ Built(CreateTarGz(disk, call.patterns, cwd))

CallCreateTarGzWithExclude ==
    /\ call.op = "CreateTarGzWithExclude"
    /\ ret = NotReturned
    /\ Built(CreateTarGzWithExclude(disk, call.includePatterns, call.excludePatterns, cwd))

NextBuild == CallCreateTarGz \/ CallCreateTarGzWithExclude

SpecBuild == InitBuild /\ [][NextBuild]_vars

(***************************************************************************)
(* Archive names: getArchiveName called once on a path, which need not     *)
(* exist, in the working directory /h/w or /.                              *)
(***************************************************************************)
MaxDepth == 3

\* path elements: plain names, ".", ".." and a name that starts with ".."
NameElements ==
    { <<"a">>, <<"w">>, <<"h">>, <<".">>, <<".", ".">>, <<".", ".", "a">> }

RelativePaths == {JoinSlash(es) : es \in UNION {[1..n -> NameElements] : n \in 1..MaxDepth}}

NamePaths == RelativePaths \cup {Slash \o p : p \in RelativePaths} \cup {<<>>, Slash}

InitName ==
    /\ call \in [op : {"getArchiveName"}, filePath : NamePaths]
    /\ ret = NotReturned
    /\ cwd \in {WorkDir, Slash}
    /\ disk = BaseDisk
    /\ collected = <<>>
    /\ pending = <<>>
    /\ outputDir = <<>>
    /\ headersRead = <<>>
    /\ xstate = "idle"
    /\ xerr = ""
    /\ RemoteIdle

CallGetArchiveName ==
    /\ call.op = "getArchiveName"
    /\ ret = NotReturned
    /\ ret' = [err |-> "", name |-> getArchiveName(call.filePath, cwd)]
    /\ UNCHANGED <<remoteVars, call, archiveVars>>

NextName == CallGetArchiveName

SpecName == InitName /\ [][NextName]_vars

(***************************************************************************)
(* Create (controller/create.go): the packet configuration is loaded, the  *)
(* patterns of the targets are pooled, the archive is built in a temporary *)
(* directory and uploaded.  One action per statement that can fail; a      *)
(* selection for the same name may follow a successful Create.             *)
(***************************************************************************)
MaxTargets == 2

\* os.MkdirTemp("", "pm-create-*")
TempDir == <<"/", "t", "/", "c">>

\* an entry of the log: the operation and whether it succeeded
Event(op, ok) == [op |-> op, ok |-> ok]

\* mutant: nothing is removed
RemoveAll_nothing(d, path) == d

\* os.RemoveAll
RemoveAll(d, path) == {f \in d : ~HasPrefix(Elements(f.path), Elements(path))}

\* mutant: only the excludes of the first target are used
allExcludePatterns_firstTargetOnly(targets) ==
    IF Len(targets) = 0 THEN <<>> ELSE Head(targets).Exclude

\* the loop over packetConfig.Targets
allIncludePatterns(targets) == [i \in 1..Len(targets) |-> targets[i].Path]

RECURSIVE allExcludePatterns(_)
allExcludePatterns(targets) ==
    IF Len(targets) = 0 THEN <<>>
    ELSE Head(targets).Exclude \o allExcludePatterns(Tail(targets))

\* mutant: the version is written as parseVersion reads it, 0.0.0 when it
\* does not parse
archiveName_parsedVersion(packetConfig) ==
    packetConfig.Name \o <<"-">>
        \o Itoa(parseVersion(packetConfig.Version).v.Major) \o <<".">>
        \o Itoa(parseVersion(packetConfig.Version).v.Minor) \o <<".">>
        \o Itoa(parseVersion(packetConfig.Version).v.Patch) \o TarGz

\* fmt.Sprintf("%s-%s.tar.gz", packetConfig.Name, packetConfig.Version)
archiveName(packetConfig) ==
    packetConfig.Name \o <<"-">> \o packetConfig.Version \o TarGz

archivePath(packetConfig) == Join(TempDir, archiveName(packetConfig))

\* targets of a packet: a path and the excludes declared with it
PacketTargets ==
    [Path : {<<"*">>, <<"d", "/", "*">>, <<"*", "*">>, <<"q", "/", "*">>},
     Exclude : {<<>>, <<<<"a">>>>, <<<<"*", ".", "t">>>>}]

TargetLists == UNION {[1..n -> PacketTargets] : n \in 0..MaxTargets}

\* versions a packet may declare: two that parseVersion accepts, and 1,
\* v1.2 and 1.0-b, which it does not
PacketVersions ==
    { <<"1", ".", "0">>, <<"2", ".", "0", ".", "1">>, <<"1">>, <<"v", "1", ".", "2">>,
      <<"1", ".", "0", "-", "b">> }

PacketConfigs == [Name : {<<"p">>}, Version : PacketVersions, Targets : TargetLists]

\* the working tree with /t, where temporary directories are made
CreateDisks ==
    { SourceTree(TreeFiles) \cup {Directory(EmptyDirectory), Directory(<<"/", "t">>)},
      BaseDisk \cup {Directory(<<"/", "t">>)} }

\* the remote directory before Create: empty, or with an archive of p
RemoteDirs == { {}, {[name |-> PackageFile(<<"p">>, <<"1", ".", "0">>), entries |-> <<>>]} }

InitCreate ==
    /\ call \in [op : {"Create"}, packetConfig : PacketConfigs]
    /\ ret = NotReturned
    /\ cwd = WorkDir
    /\ disk \in CreateDisks
    /\ collected = <<>>
    /\ pending = <<>>
    /\ outputDir = <<>>
    /\ headersRead = <<>>
    /\ xstate = "idle"
    /\ xerr = ""
    /\ pc = "LoadPacketConfig"
    /\ remote \in RemoteDirs
    /\ log = <<>>

\* config.LoadPacketConfig, and the test for "no targets specified"
CreateLoadPacketConfig ==
    /\ call.op = "Create"
    /\ pc = "LoadPacketConfig"
    /\ \E ok \in BOOLEAN :
          /\ log' = Append(log, Event("LoadPacketConfig", ok))
          /\ IF ~ok THEN ret' = [err |-> "LoadFailed"] /\ pc' = "returned"
             ELSE IF Len(allIncludePatterns(call.packetConfig.Targets)) = 0
             THEN ret' = [err |-> "NoTargets"] /\ pc' = "returned"
             ELSE ret' = ret /\ pc' = "MkdirTemp"
    /\ UNCHANGED <<call, archiveVars, remote>>

\* os.MkdirTemp; os.RemoveAll(tempDir) is deferred when it succeeded
CreateMkdirTemp ==
    /\ call.op = "Create"
    /\ pc = "MkdirTemp"
    /\ \E ok \in BOOLEAN :
          /\ log' = Append(log, Event("MkdirTemp", ok))
          /\ IF ok THEN disk' = MkdirAll(disk, TempDir).disk /\ ret' = ret /\ pc' = "CreateTarGz"
             ELSE disk' = disk /\ ret' = [err |-> "MkdirTempFailed"] /\ pc' = "returned"
    /\ UNCHANGED <<call, cwd, collected, pending, outputDir, headersRead, xstate, xerr, remote>>

\* utils.CreateTarGz(allIncludePatterns, allExcludePatterns, archivePath)
CreateArchive ==
    /\ call.op = "Create"
    /\ pc = "CreateTarGz"
    /\ \E built \in {CreateTarGzWithExclude(disk, allIncludePatterns(call.packetConfig.Targets),
                                            allExcludePatterns(call.packetConfig.Targets), cwd)} :
          IF built.err # ""
          THEN /\ ret' = [err |-> built.err]
               /\ pc' = "returned"
               /\ disk' = RemoveAll(disk, TempDir)
               /\ log' = log \o <<Event("CreateTarGz", FALSE), Event("RemoveAll", TRUE)>>
               /\ UNCHANGED <<collected, pending>>
          ELSE /\ ret' = ret
               /\ pc' = "Connect"
               /\ disk' = WriteFile(disk, archivePath(call.packetConfig), "tgz").disk
               /\ collected' = built.files
               /\ pending' = built.entries
               /\ log' = Append(log, Event("CreateTarGz", TRUE))
    /\ UNCHANGED <<call, cwd, outputDir, headersRead, xstate, xerr, remote>>

\* sshClient.Connect; sshClient.Close is deferred when it succeeded
CreateConnect ==
    /\ call.op = "Create"
    /\ pc = "Connect"
    /\ \E ok \in BOOLEAN :
          IF ok
          THEN /\ ret' = ret
               /\ pc' = "EnsureRemoteDir"
               /\ disk' = disk
               /\ log' = Append(log, Event("Connect", TRUE))
          ELSE /\ ret' = [err |-> "ConnectFailed"]
               /\ pc' = "returned"
               /\ disk' = RemoveAll(disk, TempDir)
               /\ log' = log \o <<Event("Connect", FALSE), Event("RemoveAll", TRUE)>>
    /\ UNCHANGED <<call, cwd, collected, pending, outputDir, headersRead, xstate, xerr, remote>>

\* sshClient.EnsureRemoteDir
CreateEnsureRemoteDir ==
    /\ call.op = "Create"
    /\ pc = "EnsureRemoteDir"
    /\ \E ok \in BOOLEAN :
          IF ok
          THEN /\ ret' = ret
               /\ pc' = "UploadFile"
               /\ disk' = disk
               /\ log' = Append(log, Event("EnsureRemoteDir", TRUE))
          ELSE /\ ret' = [err |-> "EnsureRemoteDirFailed"]
               /\ pc' = "returned"
               /\ disk' = RemoveAll(disk, TempDir)
               /\ log' = log \o <<Event("EnsureRemoteDir", FALSE), Event("Close", TRUE),
                                  Event("RemoveAll", TRUE)>>
    /\ UNCHANGED <<call, cwd, collected, pending, outputDir, headersRead, xstate, xerr, remote>>

\* the remote directory with the file name holding entries
Uploaded(dir, name, entries) ==
    {f \in dir : f.name # name} \cup {[name |-> name, entries |-> entries]}

\* sshClient.UploadFile: the remote file could not be created, the copy
\* broke off after it was created, or the whole archive was copied
CreateUploadFile ==
    /\ call.op = "Create"
    /\ pc = "UploadFile"
    /\ \E outcome \in {"created", "copied", "failed"} :
          /\ remote' = IF outcome = "failed" THEN remote
                       ELSE Uploaded(remote, archiveName(call.packetConfig),
                                     IF outcome = "copied" THEN pending ELSE <<>>)
          /\ ret' = [err |-> IF outcome = "copied" THEN "" ELSE "UploadFailed"]
          /\ log' = log \o <<Event("UploadFile", outcome = "copied"), Event("Close", TRUE),
                             Event("RemoveAll", TRUE)>>
    /\ pc' = "returned"
    /\ disk' = RemoveAll(disk, TempDir)
    /\ UNCHANGED <<call, cwd, collected, pending, outputDir, headersRead, xstate, xerr>>

\* the names of the remote directory in an order ListFiles may give them
RemoteListings(dir) ==
    {l \in [1..Cardinality(dir) -> {f.name : f \in dir}] :
        \A i, j \in 1..Cardinality(dir) : l[i] = l[j] => i = j}

\* after Create succeeded: findBestPackageVersion for the name of the
\* packet, with any constraint
SelectCreated ==
    /\ call.op = "Create"
    /\ pc = "returned"
    /\ ret.err = ""
    /\ \E files \in RemoteListings(remote), constraint \in RequestConstraints :
          ret' = findBestPackageVersion(files, FALSE,
                     [Name |-> call.packetConfig.Name, Version |-> constraint])
    /\ pc' = "selected"
    /\ UNCHANGED <<call, archiveVars, remote, log>>

NextCreate ==
    \/ CreateLoadPacketConfig
    \/ CreateMkdirTemp
    \/ CreateArchive
    \/ CreateConnect
    \/ CreateEnsureRemoteDir
    \/ CreateUploadFile
    \/ SelectCreated

SpecCreate == InitCreate /\ [][NextCreate]_vars

(***************************************************************************)
(* Update (controller): the packages configuration is loaded, the          *)
(* connection opened, and downloadAndInstallPackage called for every       *)
(* request in turn.  One action per statement that can fail; pc holds the  *)
(* statement, the index of the request and the archive selected for it.    *)
(***************************************************************************)
MaxRequests == 2

\* os.MkdirTemp("", "pm-download-*")
DownloadDir == <<"/", "t", "/", "d">>

\* an entry of the log: the operation, whether it succeeded, and the index
\* of the request it was made for (0 before the loop and after it)
StepEvent(op, ok, i) == [op |-> op, ok |-> ok, i |-> i]

Position(at, i, name) == [at |-> at, i |-> i, archiveName |-> name]

\* ExtractTarGz as a whole: the entries one after the other, up to the
\* first that fails
RECURSIVE ExtractTarGz(_, _, _, _)
RECURSIVE extractNext(_, _, _, _)
ExtractTarGz(d, entries, outDir, wd) ==
    IF Len(entries) = 0 THEN [err |-> "", disk |-> d]
    ELSE extractNext(extractFileFromTar(d, Head(entries), outDir, wd), Tail(entries), outDir, wd)

extractNext(extracted, rest, outDir, wd) ==
    IF extracted.err # "" THEN extracted ELSE ExtractTarGz(extracted.disk, rest, outDir, wd)

\* filepath.Join("packages", pkg.Name)
installDir(pkg) == Join(<<"p", "a", "c", "k", "a", "g", "e", "s">>, pkg.Name)

\* requests of a packages configuration
PackageRequests ==
    { [Name |-> <<"p">>, Version |-> <<>>],
      [Name |-> <<"p">>, Version |-> <<"<", " ", "2", ".", "0">>],
      [Name |-> <<"p">>, Version |-> <<">", "=", "3", ".", "0">>],
      [Name |-> <<"q">>, Version |-> <<>>] }

RequestLists == UNION {[1..n -> PackageRequests] : n \in 0..MaxRequests}

\* archives in the remote directory: p-1.0 holds the file a, p-2.0 holds b
\* and an entry that leaves the install directory, q-9.0 holds the file a
RemoteArchive(name, version, entries) == [name |-> PackageFile(name, version), entries |-> entries]

FileEntry(name) == [Name |-> name, Typeflag |-> "reg", data |-> "x"]

UpdateRemotes ==
    { { RemoteArchive(<<"p">>, <<"1", ".", "0">>, <<FileEntry(<<"a">>)>>),
        RemoteArchive(<<"p">>, <<"2", ".", "0">>,
                      <<FileEntry(<<"b">>), FileEntry(<<".", ".", "/", ".", ".", "/", "a">>)>>),
        RemoteArchive(<<"q">>, <<"9", ".", "0">>, <<FileEntry(<<"a">>)>>) },
      { RemoteArchive(<<"p">>, <<"1", ".", "0">>, <<FileEntry(<<"a">>)>>) },
      {} }

\* the working directory, empty or with a regular file called packages
UpdateDisks ==
    { BaseDisk \cup {Directory(<<"/", "t">>)},
      BaseDisk \cup {Directory(<<"/", "t">>),
                     File(Join(WorkDir, <<"p", "a", "c", "k", "a", "g", "e", "s">>), "x")} }

InitUpdate ==
    /\ call \in [op : {"Update"}, packages : RequestLists]
    /\ ret = NotReturned
    /\ cwd = WorkDir
    /\ disk \in UpdateDisks
    /\ collected = <<>>
    /\ pending = <<>>
    /\ outputDir = <<>>
    /\ headersRead = <<>>
    /\ xstate = "idle"
    /\ xerr = ""
    /\ pc = Position("LoadPackagesConfig", 0, <<>>)
    /\ remote \in UpdateRemotes
    /\ log = <<>>

updateVars == <<call, cwd, collected, pending, outputDir, headersRead, xstate, xerr, remote>>

\* where the loop goes after the request i: to the next request, or to the
\* statements after the loop
AfterRequest(i) ==
    IF i < Len(call.packages) THEN Position("findBestPackageVersion", i + 1, <<>>)
    ELSE Position("completed", 0, <<>>)

\* config.LoadPackagesConfig
UpdateLoadPackagesConfig ==
    /\ call.op = "Update"
    /\ pc.at = "LoadPackagesConfig"
    /\ \E ok \in BOOLEAN :
          /\ log' = Append(log, StepEvent("LoadPackagesConfig", ok, 0))
          /\ IF ok THEN ret' = ret /\ pc' = Position("Connect", 0, <<>>)
             ELSE ret' = [err |-> "LoadFailed"] /\ pc' = Position("returned", 0, <<>>)
    /\ UNCHANGED <<updateVars, disk>>

\* sshClient.Connect; sshClient.Close is deferred when it succeeded
UpdateConnect ==
    /\ call.op = "Update"
    /\ pc.at = "Connect"
    /\ \E ok \in BOOLEAN :
          /\ log' = Append(log, StepEvent("Connect", ok, 0))
          /\ IF ok THEN ret' = ret /\ pc' = AfterRequest(0)
             ELSE ret' = [err |-> "ConnectFailed"] /\ pc' = Position("returned", 0, <<>>)
    /\ UNCHANGED <<updateVars, disk>>

\* Update returning the error of downloadAndInstallPackage instead of
\* continuing
Warned_returns(op, d) ==
    /\ log' = log \o <<StepEvent(op, FALSE, pc.i), StepEvent("Close", TRUE, 0)>>
    /\ pc' = Position("returned", 0, <<>>)
    /\ disk' = d
    /\ ret' = [err |-> op]

\* downloadAndInstallPackage returned an error at the statement op: Update
\* prints the warning and continues with the next request
Warned(op, d) ==
    /\ log' = log \o <<StepEvent(op, FALSE, pc.i), StepEvent("Warning", TRUE, pc.i)>>
    /\ pc' = AfterRequest(pc.i)
    /\ disk' = d
    /\ ret' = ret

\* downloadAndInstallPackage: findBestPackageVersion on what ListFiles
\* returns, in any order, or fails to return
InstallFindBestPackageVersion ==
    /\ call.op = "Update"
    /\ pc.at = "findBestPackageVersion"
    /\ \E files \in RemoteListings(remote), listErr \in BOOLEAN :
          \E found \in {findBestPackageVersion(files, listErr, call.packages[pc.i])} :
              IF found.err # "" THEN Warned("findBestPackageVersion", disk)
              ELSE /\ log' = Append(log, StepEvent("findBestPackageVersion", TRUE, pc.i))
                   /\ pc' = Position("MkdirTemp", pc.i, found.filename)
                   /\ disk' = disk
                   /\ ret' = ret
    /\ UNCHANGED updateVars

\* downloadAndInstallPackage: os.MkdirTemp
InstallMkdirTemp ==
    /\ call.op = "Update"
    /\ pc.at = "MkdirTemp"
    /\ \E ok \in BOOLEAN :
          IF ~ok THEN Warned("MkdirTemp", disk)
          ELSE /\ log' = Append(log, StepEvent("MkdirTemp", TRUE, pc.i))
               /\ pc' = Position("DownloadFile", pc.i, pc.archiveName)
               /\ disk' = MkdirAll(disk, DownloadDir).disk
               /\ ret' = ret
    /\ UNCHANGED updateVars

\* downloadAndInstallPackage: sshClient.DownloadFile into the temporary
\* directory, which is removed when the function returns
InstallDownloadFile ==
    /\ call.op = "Update"
    /\ pc.at = "DownloadFile"
    /\ \E ok \in BOOLEAN :
          IF ~ok THEN Warned("DownloadFile", RemoveAll(disk, DownloadDir))
          ELSE /\ log' = Append(log, StepEvent("DownloadFile", TRUE, pc.i))
               /\ pc' = Position("ExtractTarGz", pc.i, pc.archiveName)
               /\ disk' = WriteFile(disk, Join(DownloadDir, pc.archiveName), "tgz").disk
               /\ ret' = ret
    /\ UNCHANGED updateVars

\* the entries of the remote file name
EntriesOf(dir, name) == (CHOOSE f \in dir : f.name = name).entries

\* downloadAndInstallPackage after os.MkdirAll(installDir): ExtractTarGz
\* opens the downloaded archive and extracts its entries
installInto(made, localPath, entries, dir) ==
    IF made.err # "" THEN made
    ELSE IF ~IsFile(made.disk, localPath) THEN [err |-> "OpenFailed", disk |-> made.disk]
    ELSE ExtractTarGz(made.disk, entries, dir, cwd)

\* downloadAndInstallPackage: os.MkdirAll(installDir) and utils.ExtractTarGz,
\* then the deferred os.RemoveAll(tempDir)
InstallExtractTarGz ==
    /\ call.op = "Update"
    /\ pc.at = "ExtractTarGz"
    /\ \E done \in {installInto(MkdirAll(disk, Abs(installDir(call.packages[pc.i]), cwd)),
                                Join(DownloadDir, pc.archiveName),
                                EntriesOf(remote, pc.archiveName),
                                installDir(call.packages[pc.i]))} :
          IF done.err # "" THEN Warned("ExtractTarGz", RemoveAll(done.disk, DownloadDir))
          ELSE /\ log' = log \o <<StepEvent("ExtractTarGz", TRUE, pc.i),
                                  StepEvent("Installed", TRUE, pc.i)>>
               /\ pc' = AfterRequest(pc.i)
               /\ disk' = RemoveAll(done.disk, DownloadDir)
               /\ ret' = ret
    /\ UNCHANGED updateVars

\* after the loop: "Package update completed!", return nil, and the
\* deferred sshClient.Close
UpdateCompleted ==
    /\ call.op = "Update"
    /\ pc.at = "completed"
    /\ log' = Append(log, StepEvent("Close", TRUE, 0))
    /\ pc' = Position("returned", 0, <<>>)
    /\ ret' = [err |-> ""]
    /\ UNCHANGED <<updateVars, disk>>

NextUpdate ==
    \/ UpdateLoadPackagesConfig
    \/ UpdateConnect
    \/ InstallFindBestPackageVersion
    \/ InstallMkdirTemp
    \/ InstallDownloadFile
    \/ InstallExtractTarGz
    \/ UpdateCompleted

\* the statements of Update and of downloadAndInstallPackage
UpdateStatements ==
    {"LoadPackagesConfig", "Connect", "findBestPackageVersion", "MkdirTemp",
     "DownloadFile", "ExtractTarGz", "completed", "returned"}

UpdatePositions ==
    [at : UpdateStatements, i : 0..MaxRequests, archiveName : {<<>>} \cup {f.name : f \in remote}]

\* Update is sequential code without a blocking statement of its own: as long
\* as it has not returned, control moves on to another statement
UpdateRuns ==
    /\ call.op = "Update"
    /\ pc.at # "returned"
    /\ pc' \in UpdatePositions
    /\ pc' # pc

SpecUpdate == InitUpdate /\ [][NextUpdate]_vars /\ WF_pc(UpdateRuns)

(***************************************************************************)
(* Properties of parseVersion, Compare, String and satisfiesConstraint.    *)
(***************************************************************************)
IsDigits(p) == Len(p) > 0 /\ \A i \in 1..Len(p) : IsDigit(p[i])

\* the digits of p are those of a number of at most 2^63 - 1
FitsInt64(p) ==
    LET lead == {i \in 1..Len(p) : \A j \in 1..i : p[j] = "0"}
        sig == SubSeq(p, Cardinality(lead) + 1, Len(p))
    IN Len(sig) < Len(MaxInt64)
         \/ (Len(sig) = Len(MaxInt64) /\ ~DigitsGreater(sig, MaxInt64))

\* an optional sign and digits, of a value that is >= 0 and fits an int
IsSignedNonNegative(p) ==
    \/ IsDigits(p) /\ FitsInt64(p)
    \/ Len(p) > 1 /\ p[1] = "+" /\ IsDigits(Tail(p)) /\ FitsInt64(Tail(p))
    \/ Len(p) > 1 /\ p[1] = "-" /\ \A i \in 2..Len(p) : p[i] = "0"

\* C7 as claimed: parseVersion succeeds exactly on 2 or 3 dot-separated
\* parts each of which is a base-10 non-negative integer (decimal digits),
\* and every other string fails with InvalidFormat.
Claim_C7_DigitsOnly ==
    (call.op = "parseVersion" /\ Returned) =>
        LET parts == Split(call.versionStr, <<".">>)
        IN /\ ret.err \in {"", "InvalidFormat"}
           /\ ret.err = "" <=>
                (Len(parts) \in {2, 3} /\ \A i \in 1..Len(parts) : IsDigits(parts[i]))

\* C7 as amended: parseVersion succeeds exactly on 2 or 3 dot-separated
\* parts each of which is an optional "+" or "-" sign followed by decimal
\* digits whose value is non-negative and fits a 64-bit int ("+1" and "-0"
\* are accepted, "-1" and 9223372036854775808 are not); every other string
\* fails with InvalidFormat.
Thm_C7_ParseAccepts ==
    (call.op = "parseVersion" /\ Returned) =>
        LET parts == Split(call.versionStr, <<".">>)
        IN /\ ret.err \in {"", "InvalidFormat"}
           /\ ret.err = "" <=>
                (Len(parts) \in {2, 3}
                    /\ \A i \in 1..Len(parts) : IsSignedNonNegative(parts[i]))

Witness_C7_SignedAccepted ==
    /\ call.op = "parseVersion"
    /\ Returned
    /\ call.versionStr = <<"+", "1", ".", "-", "0">>
    /\ ret.err = ""
    /\ ret.v.Major = 1

ParsedForms == {parseVersion(FormString(f)).v : f \in VersionForms}

\* lexicographic order of two number triples, as -1, 0 or 1
TripleSign(x, y) ==
    LET less(p, q) ==
            \/ p[1] < q[1]
            \/ p[1] = q[1] /\ p[2] < q[2]
            \/ p[1] = q[1] /\ p[2] = q[2] /\ p[3] < q[3]
    IN IF less(x, y) THEN -1 ELSE IF less(y, x) THEN 1 ELSE 0

\* C8: Compare of two parsed versions is -1, 0 or 1, the sign of the
\* lexicographic comparison of their (major, minor, patch) numbers with a
\* missing patch as 0 and leading zeros ignored; it is antisymmetric and
\* transitive, and 0 exactly when the triples are equal.
Thm_C8_CompareIsTripleOrder ==
    (call.op = "Compare" /\ Returned) =>
        LET va == parseVersion(call.a).v
            vb == parseVersion(call.b).v
        IN /\ ret.n \in {-1, 0, 1}
           /\ ret.n = TripleSign(FormTriple(call.fa), FormTriple(call.fb))
           /\ Compare(vb, va) = 0 - ret.n
           /\ (ret.n = 0) <=> (FormTriple(call.fa) = FormTriple(call.fb))
           /\ \A vc \in ParsedForms :
                (ret.n <= 0 /\ Compare(vb, vc) <= 0) => Compare(va, vc) <= 0

\* "1.1" against "01.1.0": different strings, equal versions
Witness_C8_EqualTriplesDifferentRaw ==
    /\ call.op = "Compare"
    /\ Returned
    /\ call.a = <<"1", ".", "1">>
    /\ call.b = <<"0", "1", ".", "1", ".", "0">>
    /\ ret.n = 0

\* C9: for every string parseVersion accepts, String of the parsed version
\* is that string, unchanged.
Thm_C9_StringIsRaw ==
    (call.op = "String" /\ Returned) => ret.str = call.versionStr

\* a two-part input with a leading zero keeps both
Witness_C9_TwoPartLeadingZero ==
    /\ call.op = "String"
    /\ Returned
    /\ call.versionStr = <<"0", "1", ".", "0">>
    /\ ret.str = <<"0", "1", ".", "0">>

OnlyWhiteSpace(s) == \A i \in 1..Len(s) : s[i] \in WhiteSpace

\* C4: satisfiesConstraint is true for every version when the constraint is
\* empty or consists only of white space.
Claim_C4_BlankConstraintSatisfied ==
    (call.op = "satisfiesConstraint" /\ Returned /\ OnlyWhiteSpace(call.constraint))
        => ret.ok

\* the target part of a constraint: trimmed, the longest of the five
\* operators removed from its start, trimmed again
ConstraintTarget(constraint) ==
    LET c == TrimSpace(constraint)
        two == {o \in {<<">", "=">>, <<"<", "=">>} : HasPrefix(c, o)}
        one == {o \in {<<">">>, <<"<">>, <<"=">>} : HasPrefix(c, o)}
        n == IF two # {} THEN 2 ELSE IF one # {} THEN 1 ELSE 0
    IN TrimSpace(SubSeq(c, n + 1, Len(c)))

ApplyOperator(operator, comparison) ==
    CASE operator = <<">", "=">> -> comparison >= 0
      [] operator = <<"<", "=">> -> comparison <= 0
      [] operator = <<">">> -> comparison > 0
      [] operator = <<"<">> -> comparison < 0
      [] operator \in {<<"=">>, <<>>} -> comparison = 0

\* C5: for a constraint made of optional white space, an optional operator
\* (none meaning =), optional white space and a valid target, the result is
\* the operator applied to Compare(v, target), whatever the white space.
Thm_C5_OperatorApplied ==
    (/\ call.op = "satisfiesConstraint"
     /\ Returned
     /\ parseVersion(call.pieces.target).err = "")
        => ret.ok = ApplyOperator(call.pieces.operator,
                        TripleSign(FormTriple(call.form),
                                   LET t == parseVersion(call.pieces.target).v
                                   IN <<t.Major, t.Minor, t.Patch>>))

\* "\t >= 0.1 " asked of 1.0: white space everywhere, two-character operator
Witness_C5_SpacedGreaterEqual ==
    /\ call.op = "satisfiesConstraint"
    /\ Returned
    /\ call.v = <<"1", ".", "0">>
    /\ call.constraint = <<"\t", " ", ">", "=", " ", "0", ".", "1", " ">>
    /\ ret.ok

\* C6: when the target part of a non-empty constraint does not parse as a
\* version, the result is false, for every version; the call returns a
\* boolean and no error.
Thm_C6_FailsClosed ==
    (call.op = "satisfiesConstraint" /\ Returned) =>
        /\ ret \in [ok : BOOLEAN]
        /\ (call.constraint # <<>> /\ parseVersion(ConstraintTarget(call.constraint)).err # "")
              => ~ret.ok

\* ">>1.0": the doubled operator leaves the target ">1.0"
Witness_C6_DoubledOperator ==
    /\ call.op = "satisfiesConstraint"
    /\ Returned
    /\ call.constraint = <<">", ">", "1", ".", "0">>
    /\ ~ret.ok

\* file has the shape <name>-<version>.tar.gz
HasPackageShape(file, name) ==
    HasPrefix(file, name \o <<"-">>) /\ HasSuffix(file, TarGz)

\* the text between <name>- and .tar.gz
EmbeddedVersion(file, name) == SubSeq(file, Len(name) + 2, Len(file) - Len(TarGz))

\* the files of the listing that are of the shape, parse and satisfy
SatisfyingFiles(files, pkg) ==
    {files[i] : i \in {k \in 1..Len(files) :
        /\ HasPackageShape(files[k], pkg.Name)
        /\ parseVersion(EmbeddedVersion(files[k], pkg.Name)).err = ""
        /\ satisfiesConstraint(parseVersion(EmbeddedVersion(files[k], pkg.Name)).v,
                               pkg.Version)}}

\* C3: when selection succeeds the file returned is a remote file of the
\* shape <name>-<version>.tar.gz whose version parses and satisfies the
\* constraint, and no other such file has a strictly greater version.
Thm_C3_SelectsGreatest ==
    (call.op = "findBestPackageVersion" /\ Returned /\ ret.err = "") =>
        LET sat == SatisfyingFiles(call.files, call.pkg)
            ver(f) == parseVersion(EmbeddedVersion(f, call.pkg.Name)).v
        IN /\ ret.filename \in sat
           /\ \A f \in sat : Compare(ver(f), ver(ret.filename)) <= 0

\* p-1.0, p-2.0, p-1.5 with >=1.2 selects p-2.0.tar.gz
Witness_C3_HighestOfThree ==
    /\ call.op = "findBestPackageVersion"
    /\ Returned
    /\ call.files = << PackageFile(<<"p">>, <<"1", ".", "0">>),
                       PackageFile(<<"p">>, <<"2", ".", "0">>),
                       PackageFile(<<"p">>, <<"1", ".", "5">>) >>
    /\ call.pkg = [Name |-> <<"p">>, Version |-> <<">", "=", "1", ".", "2">>]
    /\ ret = [err |-> "", filename |-> PackageFile(<<"p">>, <<"2", ".", "0">>)]

\* C10: when the listing holds no file with both the prefix <name>- and the
\* suffix .tar.gz, selection fails with NoPackagesFound, whatever the
\* constraint.
Thm_C10_NoShapeNoPackages ==
    (/\ call.op = "findBestPackageVersion"
     /\ Returned
     /\ ~call.listErr
     /\ \A i \in 1..Len(call.files) : ~HasPackageShape(call.files[i], call.pkg.Name))
        => ret = [err |-> "NoPackagesFound", filename |-> <<>>]

\* only another package and a file without the dash are listed
Witness_C10_OtherPackagesOnly ==
    /\ call.op = "findBestPackageVersion"
    /\ Returned
    /\ call.files = <<PackageFile(<<"q">>, <<"9", ".", "0">>), <<"p">> \o TarGz>>
    /\ call.pkg = [Name |-> <<"p">>, Version |-> <<">", "=", "1", ".", "2">>]
    /\ ret.err = "NoPackagesFound"

\* inner is outer or lies beneath it, for absolute clean paths
Beneath(inner, outer) == HasPrefix(Elements(inner), Elements(outer))

\* where the system puts the entry called name
EntryLocation(name) == Abs(Join(outputDir, name), cwd)

\* C1: ExtractTarGz never writes outside the output directory: every entry
\* whose target is not the output directory or beneath it fails the
\* extraction with IllegalPath, and nothing is created outside outputDir
\* (the directories that lead to outputDir apart).
Claim_C1_NothingOutsideOutputDir ==
    (call.op = "ExtractTarGz") =>
        LET out == Abs(outputDir, cwd)
        IN /\ \A f \in disk \ BaseDisk : Beneath(f.path, out) \/ Beneath(out, f.path)
           /\ \A i \in 1..Len(headersRead) :
                ~Beneath(EntryLocation(headersRead[i].Name), out)
                    => (i = Len(headersRead) /\ xstate = "failed" /\ xerr = "IllegalPath")

(***************************************************************************)
(* Properties of the round trip.                                           *)
(***************************************************************************)
\* where the claim places a collected file: under the output directory, at
\* the path the file had from the working directory
PlaceUnder(outDir, file, wd) == Abs(Join(outDir, Rel(Abs(wd, wd), file).path), wd)

RoundTripOver == call.op = "RoundTrip" /\ xstate \in {"ok", "failed"} /\ collected # <<>>

\* C2: when the patterns match a file, building the archive and extracting
\* it succeeds, and every matched file is then under the output directory, at
\* its path from the working directory, with the content it had
Claim_C2_RoundTripReproduces ==
    RoundTripOver =>
        /\ xstate = "ok"
        /\ \A i \in 1..Len(collected) :
              LET place == PlaceUnder(outputDir, collected[i], cwd)
              IN /\ Beneath(place, Abs(outputDir, cwd))
                 /\ IsFile(disk, place)
                 /\ FileData(disk, place) = SourceData(collected[i])

(***************************************************************************)
(* Properties of selection: errors.                                        *)
(***************************************************************************)
\* the files of the listing that are of the shape and whose version parses
ParsedFiles(files, name) ==
    {files[i] : i \in {k \in 1..Len(files) :
        /\ HasPackageShape(files[k], name)
        /\ parseVersion(EmbeddedVersion(files[k], name)).err = ""}}

\* C11: when some remote file yields a parsed candidate and no parsed
\* candidate satisfies the constraint, selection fails with
\* NoVersionSatisfiesConstraint, which is not the NoPackagesFound error, and
\* returns no file name.
Thm_C11_NoneSatisfies ==
    (/\ call.op = "findBestPackageVersion"
     /\ Returned
     /\ ~call.listErr
     /\ ParsedFiles(call.files, call.pkg.Name) # {}
     /\ SatisfyingFiles(call.files, call.pkg) = {})
        => /\ ret.err = "NoVersionSatisfiesConstraint"
           /\ ret.err # SelectError("NoPackagesFound").err
           /\ ret.filename = <<>>

\* p-1.0, p-2.0, p-1.5 with >=3.0
Witness_C11_AllBelowThree ==
    /\ call.op = "findBestPackageVersion"
    /\ Returned
    /\ call.files = << PackageFile(<<"p">>, <<"1", ".", "0">>),
                       PackageFile(<<"p">>, <<"2", ".", "0">>),
                       PackageFile(<<"p">>, <<"1", ".", "5">>) >>
    /\ call.pkg = [Name |-> <<"p">>, Version |-> <<">", "=", "3", ".", "0">>]
    /\ ret = [err |-> "NoVersionSatisfiesConstraint", filename |-> <<>>]

\* a file of the shape whose version does not parse
Unparseable(file, name) ==
    HasPackageShape(file, name) /\ parseVersion(EmbeddedVersion(file, name)).err # ""

\* the listing without the files whose version does not parse
WithoutUnparseable(files, name) == SelectSeq(files, LAMBDA f : ~Unparseable(f, name))

\* C12: a file of the shape whose version does not parse is skipped: when
\* the listing also holds a candidate that parses, the result is the result
\* for the listing without the files that do not parse.
Thm_C12_UnparseableSkipped ==
    (/\ call.op = "findBestPackageVersion"
     /\ Returned
     /\ ~call.listErr
     /\ ParsedFiles(call.files, call.pkg.Name) # {})
        => ret = findBestPackageVersion(
                    WithoutUnparseable(call.files, call.pkg.Name), FALSE, call.pkg)

\* p-x.tar.gz is listed before p-1.0.tar.gz and p-2.0.tar.gz
Witness_C12_UnparseableFirst ==
    /\ call.op = "findBestPackageVersion"
    /\ Returned
    /\ call.files = << PackageFile(<<"p">>, <<"x">>),
                       PackageFile(<<"p">>, <<"1", ".", "0">>),
                       PackageFile(<<"p">>, <<"2", ".", "0">>) >>
    /\ call.pkg = [Name |-> <<"p">>, Version |-> <<>>]
    /\ ret = [err |-> "", filename |-> PackageFile(<<"p">>, <<"2", ".", "0">>)]

(***************************************************************************)
(* Properties of collection.                                               *)
(***************************************************************************)
\* what the include patterns of the call collect
Included == collectFilesByPatterns(disk, call.includePatterns, cwd)

\* the base name of file matches one of the patterns
MatchesOne(patterns, file) ==
    \E i \in 1..Len(patterns) : Match(patterns[i], Base(file)).matched

HasSeparator(pattern) == \E i \in 1..Len(pattern) : pattern[i] = "/"

\* a separator of the pattern stands outside every character class
RECURSIVE SeparatorOutsideClass(_, _)
SeparatorOutsideClass(pattern, inClass) ==
    IF pattern = <<>> THEN FALSE
    ELSE IF pattern[1] = "[" THEN SeparatorOutsideClass(Tail(pattern), TRUE)
    ELSE IF pattern[1] = "]" THEN SeparatorOutsideClass(Tail(pattern), FALSE)
    ELSE (pattern[1] = "/" /\ ~inClass) \/ SeparatorOutsideClass(Tail(pattern), inClass)

ExcludeReturned ==
    call.op = "collectFilesByPatternsWithExclude" /\ Returned /\ ret.err = ""

\* the result is the include result without the files whose base name
\* matches an exclude pattern, in the same order
ExactlyUnexcluded ==
    /\ ret.files = SelectSeq(Included.files,
                             LAMBDA f : ~MatchesOne(call.excludePatterns, f))
    /\ call.excludePatterns = <<>> => ret = Included

\* C13 as stated: CollectWithExclude returns exactly the included files
\* whose base name matches no exclude pattern, an exclude pattern that
\* contains a path separator removes no file, and an empty exclude list
\* leaves the include result unchanged.
Claim_C13_SeparatorNeverRemoves ==
    ExcludeReturned =>
        /\ ExactlyUnexcluded
        /\ \A i \in 1..Len(call.excludePatterns) :
              HasSeparator(call.excludePatterns[i]) =>
                  \A k \in 1..Len(Included.files) :
                      ~MatchesOne(<<call.excludePatterns[i]>>, Included.files[k])

\* C13 amended: the same, for exclude patterns with a path separator outside
\* every character class.
Thm_C13_ExcludeByBaseName ==
    ExcludeReturned =>
        /\ ExactlyUnexcluded
        /\ \A i \in 1..Len(call.excludePatterns) :
              SeparatorOutsideClass(call.excludePatterns[i], FALSE) =>
                  \A k \in 1..Len(Included.files) :
                      ~MatchesOne(<<call.excludePatterns[i]>>, Included.files[k])

\* ** collects a, b.t, d/a and d/e/c.t; *.t removes b.t and d/e/c.t and
\* d/*.t removes nothing
Witness_C13_NestedFileExcluded ==
    /\ ExcludeReturned
    /\ call.includePatterns = <<<<"*", "*">>>>
    /\ call.excludePatterns = << <<"d", "/", "*", ".", "t">>, <<"*", ".", "t">> >>
    /\ ret.files = << <<"/", "h", "/", "w", "/", "a">>,
                      <<"/", "h", "/", "w", "/", "d", "/", "a">> >>

\* the pattern has invalid glob syntax
Malformed(pattern) == Match(pattern, <<>>).err

\* C14: CollectWithExclude fails with InvalidPattern whenever a pattern of
\* the exclude list is malformed, whatever the include list collects and
\* wherever the malformed pattern stands in the list.
Claim_C14_BadExcludeAlwaysFails ==
    (/\ call.op = "collectFilesByPatternsWithExclude"
     /\ Returned
     /\ \E i \in 1..Len(call.excludePatterns) : Malformed(call.excludePatterns[i]))
        => ret.err = "InvalidPattern"

\* the pattern holds "**" more than once
SeveralRecursive(pattern) == Len(Split(pattern, <<"*", "*">>)) > 2

\* what follows "**" in a recursive pattern, without the leading separator
SuffixOf(pattern) == recursiveSuffix(Split(pattern, <<"*", "*">>)[2])

\* a malformed include pattern: "**" more than once, a plain pattern with
\* invalid syntax, or a recursive pattern with invalid syntax after "**"
MalformedInclude(pattern) ==
    IF Index(pattern, <<"*", "*">>) = 0 THEN Malformed(pattern)
    ELSE SeveralRecursive(pattern) \/ Malformed(SuffixOf(pattern))

\* C15: a malformed include pattern makes the whole collection fail with
\* InvalidPattern and no file is returned.
Claim_C15_BadIncludeAborts ==
    (/\ call.op = "collectFilesByPatterns"
     /\ Returned
     /\ \E i \in 1..Len(call.patterns) : MalformedInclude(call.patterns[i]))
        => ret = [err |-> "InvalidPattern", files |-> <<>>]

(***************************************************************************)
(* Properties of expandRecursivePattern and collectFilesByPatterns.        *)
(***************************************************************************)
ExpandReturned ==
    /\ call.op = "expandRecursivePattern"
    /\ Returned
    /\ Len(Split(call.pattern, <<"*", "*">>)) = 2

\* the walk root of the pattern of the call, as an absolute path
WalkRoot == Abs(recursiveBase(Split(call.pattern, <<"*", "*">>)[1]), cwd)

\* the regular files whose base name matches the suffix of the pattern
SuffixMatches ==
    {f.path : f \in {g \in disk : /\ g.kind = "file"
                                  /\ \/ SuffixOf(call.pattern) = <<>>
                                     \/ Match(SuffixOf(call.pattern), Base(g.path)).matched}}

\* the matches returned, as absolute paths
ExpandedPaths == {Abs(ret.matches[i], cwd) : i \in 1..Len(ret.matches)}

ExpandedOnce == Cardinality(ExpandedPaths) = Len(ret.matches)

\* C16: the expansion of prefix/**/suffix returns exactly the regular files
\* below the walk root whose base name matches suffix (all of them when
\* suffix is empty), never a directory, and nothing and no error when the
\* walk root does not exist.
Claim_C16_FilesBelowRoot ==
    ExpandReturned =>
        /\ ret.err = ""
        /\ ExpandedOnce
        /\ ExpandedPaths = {p \in SuffixMatches : p # WalkRoot /\ Beneath(p, WalkRoot)}

\* C16 amended: the same, where a walk root that is itself a regular file
\* is among the files walked.
Thm_C16_FilesAtOrBelowRoot ==
    ExpandReturned =>
        /\ ret.err = ""
        /\ ExpandedOnce
        /\ ExpandedPaths = {p \in SuffixMatches : Beneath(p, WalkRoot)}

\* **/*.t finds b.t in the root and d/e/c.t two levels down, and not the
\* directory f.t
Witness_C16_NestedAndRootFiles ==
    /\ ExpandReturned
    /\ call.pattern = <<"*", "*", "/", "*", ".", "t">>
    /\ IsDirectory(disk, EmptyDirectory)
    /\ ret.matches = << <<"b", ".", "t">>, <<"d", "/", "e", "/", "c", ".", "t">> >>

CollectReturned == call.op = "collectFilesByPatterns" /\ Returned

\* C17: the result of collectFilesByPatterns holds every path at most once,
\* every path is absolute and none is a directory, for every pattern list.
Thm_C17_OnceAndNoDirectory ==
    CollectReturned =>
        /\ \A i, j \in 1..Len(ret.files) : ret.files[i] = ret.files[j] => i = j
        /\ \A i \in 1..Len(ret.files) :
              /\ IsAbs(ret.files[i])
              /\ ret.files[i] = Clean(ret.files[i])
              /\ IsFile(disk, ret.files[i])

\* * matches a, b.t and the directories d and f.t; ** matches a and b.t
\* again and the files below d
Witness_C17_PlainAndRecursive ==
    /\ CollectReturned
    /\ call.patterns = << <<"*">>, <<"*", "*">> >>
    /\ IsDirectory(disk, EmptyDirectory)
    /\ ret.files = << <<"/", "h", "/", "w", "/", "a">>,
                      <<"/", "h", "/", "w", "/", "b", ".", "t">>,
                      <<"/", "h", "/", "w", "/", "d", "/", "a">>,
                      <<"/", "h", "/", "w", "/", "d", "/", "e", "/", "c", ".", "t">> >>

(***************************************************************************)
(* Properties of CreateTarGz and getArchiveName.                           *)
(***************************************************************************)
BuildReturned == call.op \in {"CreateTarGz", "CreateTarGzWithExclude"} /\ Returned

\* the tree the build started on
SourceDisk == {f \in disk : f.path # ArchivePath}

\* the collection of the files of the call
Gathered ==
    IF call.op = "CreateTarGz" THEN collectFilesByPatterns(SourceDisk, call.patterns, cwd)
    ELSE collectFilesByPatternsWithExclude(SourceDisk, call.includePatterns,
                                           call.excludePatterns, cwd)

\* C18: CreateTarGz never leaves an archive without entries: when the
\* collection succeeds with no file it fails with NoFilesMatched and the
\* output file is not created.
Thm_C18_NoEmptyArchive ==
    BuildReturned =>
        /\ Exists(disk, ArchivePath) => pending # <<>>
        /\ ret.err = "" => IsFile(disk, ArchivePath) /\ pending # <<>>
        /\ (Gathered.err = "" /\ Gathered.files = <<>>) =>
              /\ ret.err = "NoFilesMatched"
              /\ ~Exists(disk, ArchivePath)
              /\ pending = <<>>

\* * collects a and b.t and the exclude pattern * removes both
Witness_C18_EveryFileExcluded ==
    /\ BuildReturned
    /\ call.op = "CreateTarGzWithExclude"
    /\ call.includePatterns = <<<<"*">>>>
    /\ call.excludePatterns = <<<<"*">>>>
    /\ IsFile(disk, <<"/", "h", "/", "w", "/", "a">>)
    /\ ret.err = "NoFilesMatched"
    /\ ~Exists(disk, ArchivePath)

NameReturned == call.op = "getArchiveName" /\ Returned

\* the file of the call as an absolute path
AbsFile == Abs(call.filePath, cwd)

\* the file lies below the working directory
InsideTree == Beneath(AbsFile, cwd) /\ AbsFile # cwd

\* the elements of the file's path after those of the working directory
RelativeName ==
    JoinSlash(SubSeq(Elements(AbsFile), Len(Elements(cwd)) + 1, Len(Elements(AbsFile))))

\* C19: getArchiveName returns the path relative to the working directory,
\* with forward slashes, for a file inside the working directory tree, and
\* the base name for a file outside it, for a relative path that starts
\* with ".." and for the working directory itself; it returns no error,
\* whether the path exists or not.
Thm_C19_RelativeOrBaseName ==
    NameReturned =>
        /\ ret.err = ""
        /\ ret.name = IF InsideTree /\ ~HasPrefix(RelativeName, DotDot)
                      THEN RelativeName
                      ELSE Base(AbsFile)

\* ./a/w names /h/w/a/w, which does not exist: the name is a/w
Witness_C19_NestedRelativeName ==
    /\ NameReturned
    /\ cwd = WorkDir
    /\ call.filePath = <<".", "/", "a", "/", "w">>
    /\ ~Exists(disk, AbsFile)
    /\ ret.name = <<"a", "/", "w">>

(***************************************************************************)
(* Properties of the read loop of ExtractTarGz.                            *)
(***************************************************************************)
\* what a successful entry leaves at its place under the output directory
EntryWritten(header) ==
    CASE header.Typeflag = "reg" -> IsFile(disk, EntryLocation(header.Name))
      [] header.Typeflag = "dir" -> IsDirectory(disk, EntryLocation(header.Name))
      [] OTHER -> TRUE

\* the extraction stopped at an entry that failed
EntryFailed == xstate = "failed" /\ xerr # "ReadError"

\* how many of the entries read were extracted
Extracted == IF EntryFailed THEN Len(headersRead) - 1 ELSE Len(headersRead)

\* every entry before the one that failed is in place
EarlierEntriesKept ==
    /\ EntryFailed => Len(headersRead) > 0
    /\ \A i \in 1..Extracted : EntryWritten(headersRead[i])

\* one pass of the read loop: the entries are taken one after the other,
\* the error is that of the entry read last, nothing that exists is
\* removed, and after an error nothing is read or written
OnePass ==
    /\ xerr # "" => UNCHANGED <<disk, headersRead, xerr, xstate>>
    /\ headersRead' # headersRead =>
          /\ Front(headersRead') = headersRead
          /\ xerr' = extractFileFromTar(disk, Last(headersRead'), outputDir, cwd).err
          /\ xerr' # "" => xstate' = "failed"
    /\ \A f \in disk : Exists(disk', f.path)

\* C20: ExtractTarGz extracts the entries in the order of the archive and
\* stops at the first entry that fails, with the error of that entry: what
\* earlier entries wrote stays in place and no later entry is read or
\* written.
Thm_C20_StopsAtFirstFailure == []EarlierEntriesKept /\ [][OnePass]_vars

\* a was written to /o/a, then ../a was refused with IllegalPath
Witness_C20_SecondEntryFails ==
    /\ call.op = "ExtractTarGz"
    /\ outputDir = <<"/", "o">>
    /\ Len(headersRead) = 2
    /\ headersRead[1] = [Name |-> <<"a">>, Typeflag |-> "reg", data |-> "x"]
    /\ headersRead[2].Name = <<".", ".", "/", "a">>
    /\ xstate = "failed"
    /\ xerr = "IllegalPath"
    /\ IsFile(disk, <<"/", "o", "/", "a">>)

(***************************************************************************)
(* Properties of the choice among candidates of equal version.             *)
(***************************************************************************)
\* the places of the listing whose file satisfies and has the version of
\* the file returned
TiedPlaces ==
    {k \in 1..Len(call.files) :
        /\ call.files[k] \in SatisfyingFiles(call.files, call.pkg)
        /\ Compare(parseVersion(EmbeddedVersion(call.files[k], call.pkg.Name)).v,
                   parseVersion(EmbeddedVersion(ret.filename, call.pkg.Name)).v) = 0}

\* C21: when several satisfying files have the greatest version, selection
\* returns the one that comes first in the listing, whatever the length
\* and the order of the listing.
Claim_C21_FirstListedWins ==
    (/\ call.op = "findBestPackageVersion" /\ Returned /\ ret.err = ""
     /\ Cardinality(TiedPlaces) > 1)
        => \A k \in TiedPlaces : ret.filename = call.files[k] \/ \E m \in TiedPlaces : m < k /\ ret.filename = call.files[m]

(***************************************************************************)
(* Properties of the names in an archive and of the containment check.     *)
(***************************************************************************)
\* a name that is not empty, not absolute and has no element ".."
NameSafe(name) ==
    /\ name # <<>>
    /\ ~IsAbs(name)
    /\ \A i \in 1..Len(Elements(name)) : Elements(name)[i] # DotDot

\* the entries CreateTarGz wrote: those read back and those still to read
BuiltEntries == headersRead \o pending

AllNamesSafe == \A i \in 1..Len(BuiltEntries) : NameSafe(BuiltEntries[i].Name)

\* C23: every name in an archive written by CreateTarGz is not empty, not
\* absolute and without "..", and ExtractTarGz never answers IllegalPath
\* to such an archive, whatever the output directory.
Claim_C23_BuiltArchiveExtracts ==
    (call.op = "RoundTrip") => (AllNamesSafe /\ xerr # "IllegalPath")

\* C24: the entries of one archive have different names, and after the
\* extraction every collected file's content is where its entry was put.
Claim_C24_DistinctNames ==
    (call.op = "RoundTrip") =>
        /\ \A i, j \in 1..Len(BuiltEntries) :
              BuiltEntries[i].Name = BuiltEntries[j].Name => i = j
        /\ xstate = "ok" =>
              \A i \in 1..Len(collected) :
                  FileData(disk, EntryLocation(getArchiveName(collected[i], cwd)))
                      = SourceData(collected[i])

\* the entry read last and where the system would put it
LastRead == Last(headersRead)

\* C25: the containment check accepts every entry whose name is relative
\* and without "..", for every output directory, and refuses an entry only
\* when its target is outside the output directory.
Claim_C25_ChecksRealContainment ==
    (call.op = "ExtractTarGz" /\ headersRead # <<>>) =>
        /\ NameSafe(LastRead.Name) => xerr # "IllegalPath"
        /\ xerr = "IllegalPath" =>
              ~Beneath(EntryLocation(LastRead.Name), Abs(outputDir, cwd))

(***************************************************************************)
(* Properties of selection: other packages and versions that do not parse. *)
(***************************************************************************)
SelectReturned == call.op = "findBestPackageVersion" /\ Returned /\ ~call.listErr

\* file is <M>-<V>.tar.gz for a name M = name-X with X not empty and a
\* version V that parses
OfExtendedName(file, name) ==
    /\ HasPackageShape(file, name)
    /\ \E k \in 1..(Len(EmbeddedVersion(file, name)) - 2) :
          /\ EmbeddedVersion(file, name)[k + 1] = "-"
          /\ parseVersion(SubSeq(EmbeddedVersion(file, name), k + 2,
                                 Len(EmbeddedVersion(file, name)))).err = ""

\* C29: selection for the name N never returns a file M-V.tar.gz of a
\* package M = N-X with X not empty and V a version that parses.
Claim_C29_NoExtendedName ==
    (SelectReturned /\ ret.err = "") => ~OfExtendedName(ret.filename, call.pkg.Name)

\* C30: when files have the shape <name>-<version>.tar.gz and the version
\* of none of them parses, selection fails with NoPackagesFound, as when no
\* file has the shape, and returns no file name.
Thm_C30_UnparseableOnly ==
    (/\ SelectReturned
     /\ \E i \in 1..Len(call.files) : HasPackageShape(call.files[i], call.pkg.Name)
     /\ ParsedFiles(call.files, call.pkg.Name) = {})
        => ret = [err |-> "NoPackagesFound", filename |-> <<>>]

\* p-x.tar.gz and p-1.tar.gz are the only files of the shape
Witness_C30_TwoUnparseable ==
    /\ SelectReturned
    /\ call.pkg.Name = <<"p">>
    /\ call.files = << PackageFile(<<"p">>, <<"x">>), PackageFile(<<"q">>, <<"9", ".", "0">>),
                       PackageFile(<<"p">>, <<"1">>) >>
    /\ ret = [err |-> "NoPackagesFound", filename |-> <<>>]

(***************************************************************************)
(* Properties of Create.                                                   *)
(***************************************************************************)
\* CreateTarGz succeeded in this run of Create
ArchiveBuilt ==
    /\ call.op = "Create"
    /\ \E i \in 1..Len(log) : log[i] = Event("CreateTarGz", TRUE)

\* the base name of file matches an exclude pattern declared on a target
ExcludedByTarget(file, target) ==
    \E i \in 1..Len(target.Exclude) : Match(target.Exclude[i], Base(file)).matched

\* C22: the excludes of all targets are applied to the files of every
\* target: no file of the archive has a base name that matches an exclude
\* pattern of any target, also of a target other than the one whose path
\* matched the file.
Thm_C22_ExcludesPooled ==
    ArchiveBuilt =>
        \A i \in 1..Len(collected), k \in 1..Len(call.packetConfig.Targets) :
            ~ExcludedByTarget(collected[i], call.packetConfig.Targets[k])

\* the target * has no excludes and matches a and b.t; a is excluded on the
\* target d/* only, and is left out
Witness_C22_ExcludedByOtherTarget ==
    /\ ArchiveBuilt
    /\ call.packetConfig.Targets = << [Path |-> <<"*">>, Exclude |-> <<>>],
                                      [Path |-> <<"d", "/", "*">>, Exclude |-> <<<<"a">>>>] >>
    /\ IsFile(disk, <<"/", "h", "/", "w", "/", "a">>)
    /\ collected = << <<"/", "h", "/", "w", "/", "b", ".", "t">> >>

\* the statements of Create that can fail, in the order of the code
CreateSteps ==
    << "LoadPacketConfig", "MkdirTemp", "CreateTarGz", "Connect", "EnsureRemoteDir",
       "UploadFile" >>

\* the deferred calls
Deferred == {"Close", "RemoveAll"}

\* the log without the deferred calls
StepsDone == SelectSeq(log, LAMBDA e : e.op \notin Deferred)

\* the operation was tried in this run
Tried(op) == \E i \in 1..Len(log) : log[i].op = op

\* the steps were tried in the order of the code, each after the one before
\* it succeeded
InCodeOrder ==
    /\ Len(StepsDone) <= Len(CreateSteps)
    /\ \A i \in 1..Len(StepsDone) :
          /\ StepsDone[i].op = CreateSteps[i]
          /\ i < Len(StepsDone) => StepsDone[i].ok

\* the deferred calls are the last of the log, and there are none before
\* Create returns
DeferredLast ==
    /\ \A i, j \in 1..Len(log) : (log[i].op \in Deferred /\ log[j].op \notin Deferred) => j < i
    /\ Tried("Close") => (Tried("Connect") /\ Tried("RemoveAll"))
    /\ (\E i \in 1..Len(log) : log[i].op \in Deferred) => pc \in {"returned", "selected"}

\* the archive is in the temporary directory, whole
ArchiveReady == IsFile(disk, archivePath(call.packetConfig)) /\ pending # <<>>

\* Create failed before the archive was built
BuildFailed ==
    /\ pc = "returned"
    /\ ret.err \in {"LoadFailed", "NoTargets", "MkdirTempFailed", "InvalidPattern",
                    "NoFilesMatched"}

\* C27: Create loads, builds the archive, connects, ensures the remote
\* directory and uploads, in this order and each step only after the one
\* before it succeeded: the archive is built before the connection is
\* opened, the upload is the last step, nothing is connected or uploaded
\* when the build fails, and the temporary directory is gone whenever
\* Create has returned.
Thm_C27_StepsInOrder ==
    (call.op = "Create") =>
        /\ InCodeOrder
        /\ DeferredLast
        /\ Tried("Connect") => (ArchiveBuilt /\ (pc \notin {"returned", "selected"} => ArchiveReady))
        /\ pc = "Connect" => ArchiveReady
        /\ BuildFailed => (~Tried("Connect") /\ ~Tried("UploadFile") /\ remote \in RemoteDirs)
        /\ pc \in {"returned", "selected"} =>
              \A f \in disk : ~HasPrefix(Elements(f.path), Elements(TempDir))
        /\ (pc = "returned" /\ ret.err = "") =>
              \E f \in remote : f.name = archiveName(call.packetConfig) /\ f.entries = pending

\* every step succeeded: the archive was uploaded and the temporary
\* directory removed
Witness_C27_Uploaded ==
    /\ call.op = "Create"
    /\ pc = "returned"
    /\ ret.err = ""
    /\ log = << Event("LoadPacketConfig", TRUE), Event("MkdirTemp", TRUE),
                Event("CreateTarGz", TRUE), Event("Connect", TRUE),
                Event("EnsureRemoteDir", TRUE), Event("UploadFile", TRUE),
                Event("Close", TRUE), Event("RemoveAll", TRUE) >>
    /\ ~Exists(disk, TempDir)
    /\ IsDirectory(disk, <<"/", "t">>)

\* <name>-<ver>.tar.gz, with the version as the packet declares it
DeclaredFile == call.packetConfig.Name \o <<"-">> \o call.packetConfig.Version \o TarGz

\* C28: Create uploads <name>-<ver>.tar.gz whatever ver is, and when
\* parseVersion does not accept ver no selection for that name returns the
\* uploaded file, whatever the constraint.
Thm_C28_UnparsedVersionNeverSelected ==
    (call.op = "Create") =>
        /\ (pc = "returned" /\ ret.err = "") =>
              \E f \in remote : f.name = DeclaredFile /\ f.entries = pending
        /\ (pc = "selected" /\ parseVersion(call.packetConfig.Version).err # "") =>
              ret.filename # DeclaredFile

\* p-v1.2.tar.gz was uploaded next to p-1.0.tar.gz, which is selected
Witness_C28_OlderFileSelected ==
    /\ call.op = "Create"
    /\ pc = "selected"
    /\ call.packetConfig.Version = <<"v", "1", ".", "2">>
    /\ \E f \in remote : f.name = DeclaredFile /\ f.entries # <<>>
    /\ ret = [err |-> "", filename |-> PackageFile(<<"p">>, <<"1", ".", "0">>)]

(***************************************************************************)
(* Properties of Update                                                    *)
(***************************************************************************)
UpdateConnected ==
    /\ call.op = "Update"
    /\ \E k \in 1..Len(log) : log[k] = StepEvent("Connect", TRUE, 0)

UpdateReturned == call.op = "Update" /\ pc.at = "returned"

IsOutcome(e) == e.op \in {"Warning", "Installed"}

\* what Update printed for the requests, in the order it printed it
Outcomes == SelectSeq(log, IsOutcome)

\* the outcomes are those of the requests 1, 2, ... in this order, and a
\* step that failed is followed by the warning for its request
ProcessedInOrder ==
    /\ Len(Outcomes) <= Len(call.packages)
    /\ \A k \in 1..Len(Outcomes) : Outcomes[k].i = k
    /\ \A k \in 1..Len(log) :
          (log[k].i > 0 /\ ~log[k].ok) =>
              /\ k < Len(log)
              /\ log[k + 1] = StepEvent("Warning", TRUE, log[k].i)

\* Update never returns in the middle of the requests
ReturnsAfterLast ==
    /\ (ret # NotReturned) = (pc.at = "returned")
    /\ (UpdateReturned /\ UpdateConnected) =>
          /\ ret = [err |-> ""]
          /\ Len(Outcomes) = Len(call.packages)

UpdateSucceeded == UpdateReturned /\ ret = [err |-> ""] /\ Len(Outcomes) = Len(call.packages)

\* C26: once connected, Update handles the requests of the configuration in
\* their order, a failure of selection, download or extraction of one request
\* being printed as a warning and followed by the next request, and Update
\* returns without error after the last request, whatever failed.
Thm_C26_EveryRequestProcessed ==
    /\ [](call.op = "Update" => ProcessedInOrder /\ ReturnsAfterLast)
    /\ (UpdateConnected ~> UpdateSucceeded)

\* Update returned after a first request that failed and a second that was
\* installed
Witness_C26_FailureThenInstalled ==
    /\ UpdateReturned
    /\ Len(call.packages) = 2
    /\ Len(Outcomes) = 2
    /\ Outcomes[1].op = "Warning"
    /\ Outcomes[2].op = "Installed"

====
